---- MODULE Spec2Model ----
(***************************************************************************)
(* Model of luadec (src/luadec/src/main.rs): the Lua 4.0 chunk parser, the  *)
(* expression tree builder `to_nodes` and the code generator               *)
(* `process_node`, as driven by `main`.                                    *)
(*                                                                         *)
(* A panic of the program (unwrap on None, assert, todo!, unimplemented!,  *)
(* arithmetic overflow in a debug build, slice index out of range) is the  *)
(* status "panic" together with the place of the panic in `failure`.       *)
(***************************************************************************)
EXTENDS Integers, Sequences, FiniteSets, TLC

(***************************************************************************)
(* enum OpCode: the ordinal of each variant.                               *)
(***************************************************************************)
End == 0
Return == 1
Call == 2
TailCall == 3
PushNil == 4
Pop == 5
PushInt == 6
PushString == 7
PushNumber == 8
PushNegativeNumber == 9
PushUpValue == 10
GetLocal == 11
GetGlobal == 12
GetTable == 13
GetDotted == 14
GetIndexed == 15
PushSelf == 16
CreateTable == 17
SetLocal == 18
SetGlobal == 19
SetTable == 20
SetList == 21
SetMap == 22
Add == 23
AddInt == 24
Subtract == 25
Multiply == 26
Divide == 27
Power == 28
Concat == 29
Minus == 30
Not == 31
JumpNotEqual == 32
JumpEqual == 33
JumpLessThan == 34
JumpLessThanEqual == 35
JumpGreaterThan == 36
JumpGreaterThanEqual == 37
JumpIfTrue == 38
JumpIfFalse == 39
JumpOnTrue == 40
JumpOnFalse == 41
Jump == 42
PushNilJump == 43
ForPrep == 44
ForLoop == 45
LForPrep == 46
LForLoop == 47
Closure == 48

\* The set of ordinals FromPrimitive::from_usize maps to a variant.
OpCode == End .. Closure

\* is_jump without its upper end.
is_jump_wide(o) == o >= JumpNotEqual

\* OpCode::is_jump
is_jump(o) == o >= JumpNotEqual /\ o <= Jump

\* enum StackChange
Constant(n) == [kind |-> "Constant", n |-> n]
Delta == [kind |-> "Delta", n |-> 0]
None == [kind |-> "None", n |-> 0]

\* OpCode::push_count
op_push_count(o) ==
  CASE o \in {End, Return} -> None
    [] o = Call -> Delta
    [] o = TailCall -> None
    [] o = PushNil -> Delta
    [] o = Pop -> None
    [] o \in {PushInt, PushString, PushNumber, PushNegativeNumber, PushUpValue,
              GetLocal, GetGlobal, GetTable, GetDotted, GetIndexed} -> Constant(1)
    [] o = PushSelf -> Constant(2)
    [] o = CreateTable -> Constant(1)
    [] o \in {SetLocal, SetGlobal} -> None
    [] o \in {SetTable, SetList, SetMap} -> None
    [] o \in {Add, AddInt, Subtract, Multiply, Divide, Power} -> Constant(1)
    [] o = Concat -> Constant(1)
    [] o \in {Minus, Not} -> Constant(1)
    [] o \in {JumpNotEqual, JumpEqual, JumpLessThan, JumpLessThanEqual,
              JumpGreaterThan, JumpGreaterThanEqual, JumpIfTrue, JumpIfFalse,
              JumpOnTrue, JumpOnFalse, Jump, PushNilJump, ForPrep, ForLoop} -> None
    [] o = LForPrep -> Constant(2)
    [] o = LForLoop -> None
    [] o = Closure -> Constant(1)

\* OpCode::pop_count
op_pop_count(o) ==
  CASE o = End -> None
    [] o \in {Return, Call, TailCall} -> Delta
    [] o = PushNil -> None
    [] o = Pop -> Delta
    [] o \in {PushInt, PushString, PushNumber, PushNegativeNumber, PushUpValue,
              GetLocal, GetGlobal} -> None
    [] o = GetTable -> Constant(2)
    [] o \in {GetDotted, GetIndexed, PushSelf} -> Constant(1)
    [] o = CreateTable -> None
    [] o \in {SetLocal, SetGlobal} -> Constant(1)
    [] o \in {SetTable, SetList, SetMap} -> Delta
    [] o = Add -> Constant(2)
    [] o = AddInt -> Constant(1)
    [] o \in {Subtract, Multiply, Divide, Power} -> Constant(2)
    [] o = Concat -> Delta
    [] o \in {Minus, Not} -> Constant(1)
    [] o \in {JumpNotEqual, JumpEqual, JumpLessThan, JumpLessThanEqual,
              JumpGreaterThan, JumpGreaterThanEqual} -> Constant(2)
    [] o \in {JumpIfTrue, JumpIfFalse, JumpOnTrue, JumpOnFalse} -> Constant(1)
    [] o = Jump -> None
    [] o = PushNilJump -> None
    [] o = ForPrep -> None
    [] o = ForLoop -> Constant(3)
    [] o = LForPrep -> None
    [] o = LForLoop -> Constant(3)
    [] o = Closure -> Delta

(***************************************************************************)
(* struct Instruction: the decoded word and the three field widths of the  *)
(* chunk header.                                                           *)
(***************************************************************************)
Instruction(word, h) ==
  [instruction |-> word, size_instruction |-> h.size_instruction,
   size_op |-> h.size_op, size_b |-> h.size_b]

\* x >> n and x & !((!0) << n) for a word x below 2^31 and a u8 amount n.
\* A shift by 64 or more overflows: a build with overflow checks panics
\* there (the _overflows predicates below), any other build shifts by the
\* low six bits of the amount, which is what these two compute.
shr(x, n) == IF n % 64 > 30 THEN 0 ELSE x \div (2 ^ (n % 64))
low(x, n) == IF n % 64 > 30 THEN x ELSE x % (2 ^ (n % 64))

\* The header widths under which the arithmetic of op, u, s, a and b
\* overflows: a shift by 64 or more, size_instruction - size_op below
\* zero as a u8, or (1 << 63) - 1 as an isize.
op_overflows(i) == i.size_op >= 64
u_overflows(i) == i.size_op >= 64
s_overflows(i) ==
  \/ u_overflows(i)
  \/ i.size_instruction < i.size_op
  \/ i.size_instruction - i.size_op >= 63
a_overflows(i) == i.size_op + i.size_b >= 64
b_overflows(i) == i.size_op >= 64 \/ i.size_b >= 64

\* The low size_op bits of the word: instruction & !((!0) << size_op).
op_bits(i) == low(i.instruction, i.size_op)

\* Instruction::op panics ("Invalid Instruction!") when this is false.
op_valid(i) == op_bits(i) \in OpCode

\* op with a mask one bit short.
op_narrow(i) == low(i.instruction, i.size_op - 1)

\* Instruction::op
op(i) == op_bits(i)

\* Instruction::u
u(i) == shr(i.instruction, i.size_op)

\* Instruction::s without the bias.
s_unbiased(i) == u(i)

\* Instruction::s with the bias (1 << bits) >> 1.
s_rounded(i) ==
  u(i) - ((2 ^ ((i.size_instruction - i.size_op) % 64)) \div 2)

\* Instruction::s; where the shift or the subtractions overflow, the value
\* of the build without overflow checks.
s(i) ==
  u(i) - (((2 ^ ((i.size_instruction - i.size_op) % 64)) - 1) \div 2)

\* Instruction::a
a(i) == shr(i.instruction, i.size_op + i.size_b)

\* Instruction::b without the mask.
b_unmasked(i) == shr(i.instruction, i.size_op)

\* Instruction::b
b(i) == low(shr(i.instruction, i.size_op), i.size_b)

\* Instruction::push_count (no opcode reaches its unreachable!() arms).
push_count(i) ==
  LET c == op_push_count(op(i)) IN
  CASE c.kind = "Constant" -> c.n
    [] c.kind = "None" -> 0
    [] c.kind = "Delta" -> IF op(i) = PushNil THEN u(i) ELSE b(i)

\* pop_count with a pop count for every opcode.
pop_count_total(i) == FALSE

\* Instruction::pop_count panics: todo!() for SetList and SetMap,
\* unreachable!() for the remaining Delta opcode, TailCall.
pop_count_panics(i) ==
  /\ op_pop_count(op(i)).kind = "Delta"
  /\ op(i) \notin {Pop, SetTable, Concat, Closure, Call, Return}

\* pop_count with Call resolved to operand B.
pop_count_b(i) ==
  LET c == op_pop_count(op(i)) IN
  CASE c.kind = "Constant" -> c.n
    [] c.kind = "None" -> 0
    [] c.kind = "Delta" ->
         CASE op(i) = Pop -> u(i)
           [] op(i) = SetTable -> b(i)
           [] op(i) = Concat -> u(i)
           [] op(i) = Closure -> b(i)
           [] op(i) = Call -> b(i)
           [] op(i) = Return -> u(i)
           [] OTHER -> 0

\* Instruction::pop_count, where it does not panic.
pop_count(i) ==
  LET c == op_pop_count(op(i)) IN
  CASE c.kind = "Constant" -> c.n
    [] c.kind = "None" -> 0
    [] c.kind = "Delta" ->
         CASE op(i) = Pop -> u(i)
           [] op(i) = SetTable -> b(i)
           [] op(i) = Concat -> u(i)
           [] op(i) = Closure -> b(i)
           [] op(i) = Call -> a(i)
           [] op(i) = Return -> u(i)
           [] OTHER -> 0

\* The operand reads of push_count and of pop_count whose arithmetic
\* overflows under the widths of i.
push_count_overflows(i) ==
  \/ op(i) = PushNil /\ u_overflows(i)
  \/ op(i) = Call /\ b_overflows(i)
pop_count_overflows(i) ==
  \/ op(i) \in {Pop, Concat, Return} /\ u_overflows(i)
  \/ op(i) \in {SetTable, Closure} /\ b_overflows(i)
  \/ op(i) = Call /\ a_overflows(i)

\* OpCode::mode
mode(o) ==
  CASE o \in {End, GetTable, Add, Subtract, Multiply, Divide, Power, Minus,
              Not, PushNilJump} -> "None"
    [] o \in {Call, TailCall, SetTable, SetList, Closure} -> "AB"
    [] o \in {PushInt, AddInt, ForPrep, ForLoop, LForPrep, LForLoop}
           \/ (o >= JumpNotEqual /\ o <= Jump) -> "Signed"
    [] OTHER -> "Unsigned"

\* Debug for Instruction (lines 300-311): the panic that formatting i ends
\* in, "" when it ends in none.  fmt calls op() and then u(), s() or a()
\* and b() as the mode of the opcode says; `checked` is a build with
\* overflow checks.
fmt(i, checked) ==
  IF checked /\ op_overflows(i) THEN "overflow"
  ELSE IF ~ op_valid(i) THEN "op"
  ELSE IF checked /\
          CASE mode(op(i)) = "Unsigned" -> u_overflows(i)
            [] mode(op(i)) = "Signed" -> s_overflows(i)
            [] mode(op(i)) = "AB" -> a_overflows(i) \/ b_overflows(i)
            [] OTHER -> FALSE
       THEN "overflow"
  ELSE ""

(***************************************************************************)
(* mod parser: the nom parsers.  A parser maps the input bytes to          *)
(* [st |-> "Ok", rest, val], to an error ("Err", what `?` propagates) or   *)
(* to a panic ("Panic", with the panicking macro in `why`).                *)
(***************************************************************************)
Reverse(q) == [k \in 1 .. Len(q) |-> q[Len(q) + 1 - k]]
Last(q) == q[Len(q)]
Front(q) == SubSeq(q, 1, Len(q) - 1)

Parsed(rest, val) == [st |-> "Ok", rest |-> rest, val |-> val, why |-> ""]
Error == [st |-> "Err", rest |-> <<>>, val |-> <<>>, why |-> ""]
Panicked(why) == [st |-> "Panic", rest |-> <<>>, val |-> <<>>, why |-> why]

\* The `?` operator and the sequencing of two parsers: what `next` makes
\* of the result of `prev` when that succeeded, the failure of `prev`
\* otherwise.
Then(prev, next(_)) ==
  CHOOSE result \in { IF r.st = "Ok" THEN next(r) ELSE r : r \in {prev} } : TRUE

\* nom::bytes::complete::take
take(n, input) ==
  IF Len(input) < n THEN Error
  ELSE Parsed(SubSeq(input, n + 1, Len(input)), SubSeq(input, 1, n))

\* nom::number::complete::le_u8
le_u8(input) ==
  IF Len(input) < 1 THEN Error ELSE Parsed(Tail(input), input[1])

\* The unsigned and the two's complement value of bytes, most
\* significant first.
RECURSIVE be_value(_)
be_value(bytes) ==
  IF bytes = <<>> THEN 0 ELSE be_value(Front(bytes)) * 256 + Last(bytes)

be_signed(bytes) ==
  (IF bytes[1] >= 128 THEN bytes[1] - 256 ELSE bytes[1])
    * (256 ^ (Len(bytes) - 1)) + be_value(Tail(bytes))

\* The first `size` bytes of the input, most significant first.
leading(size, little, input) ==
  IF little THEN Reverse(SubSeq(input, 1, size)) ELSE SubSeq(input, 1, size)

\* be_u16, le_u16, be_u32, le_u32, be_u64, le_u64 (size 2, 4, 8)
unsigned(size, little, input) ==
  IF Len(input) < size THEN Error
  ELSE Parsed(SubSeq(input, size + 1, Len(input)),
              be_value(leading(size, little, input)))

\* be_i16, le_i16, be_i32, le_i32 (size 2, 4)
signed(size, little, input) ==
  IF Len(input) < size THEN Error
  ELSE Parsed(SubSeq(input, size + 1, Len(input)),
              be_signed(leading(size, little, input)))

\* be_f32, le_f32, be_f64, le_f64: a float is held as its bytes, most
\* significant first, which also tells an f32 widened to f64 from an f64.
float(size, little, input) ==
  IF Len(input) < size THEN Error
  ELSE Parsed(SubSeq(input, size + 1, Len(input)), leading(size, little, input))

\* header without the checks of the fixed bytes.
header_unverified(input) ==
  Then(le_u8(input), LAMBDA id_chunk :
  Then(take(3, id_chunk.rest), LAMBDA signature :
  Then(le_u8(signature.rest), LAMBDA version :
  Then(take(8, version.rest), LAMBDA fields :
  Then(take(fields.val[8], fields.rest), LAMBDA test_number :
  Parsed(test_number.rest,
         [id_chunk |-> id_chunk.val, signature |-> signature.val,
          version |-> version.val, endianess |-> fields.val[1],
          sizeof_int |-> fields.val[2], sizeof_size_t |-> fields.val[3],
          sizeof_instruction |-> fields.val[4],
          size_instruction |-> fields.val[5], size_op |-> fields.val[6],
          size_b |-> fields.val[7], sizeof_number |-> fields.val[8],
          test_number |-> test_number.val]))))))

\* fn header
header(input) ==
  Then(le_u8(input), LAMBDA id_chunk :
  IF id_chunk.val # 27 THEN Error ELSE
  Then(take(3, id_chunk.rest), LAMBDA signature :
  IF signature.val # <<76, 117, 97>> THEN Error ELSE
  Then(le_u8(signature.rest), LAMBDA version :
  IF version.val # 64 THEN Error ELSE
  Then(take(8, version.rest), LAMBDA fields :
  Then(take(fields.val[8], fields.rest), LAMBDA test_number :
  Parsed(test_number.rest,
         [id_chunk |-> id_chunk.val, signature |-> signature.val,
          version |-> version.val, endianess |-> fields.val[1],
          sizeof_int |-> fields.val[2], sizeof_size_t |-> fields.val[3],
          sizeof_instruction |-> fields.val[4],
          size_instruction |-> fields.val[5], size_op |-> fields.val[6],
          size_b |-> fields.val[7], sizeof_number |-> fields.val[8],
          test_number |-> test_number.val]))))))

\* fn number
number(input, h) ==
  IF h.sizeof_number \in {4, 8} /\ h.endianess \in {0, 1}
  THEN float(h.sizeof_number, h.endianess = 1, input)
  ELSE Panicked("unimplemented")

\* fn instruction
instruction(input, h) ==
  IF h.sizeof_instruction \in {2, 4, 8} /\ h.endianess \in {0, 1}
  THEN Then(unsigned(h.sizeof_instruction, h.endianess = 1, input), LAMBDA r :
         Parsed(r.rest, Instruction(r.val, h)))
  ELSE Panicked("unimplemented")

\* fn int
int(input, h) ==
  IF h.sizeof_int \in {2, 4} /\ h.endianess \in {0, 1}
  THEN signed(h.sizeof_int, h.endianess = 1, input)
  ELSE Panicked("unimplemented")

\* fn size_t
size_t(input, h) ==
  IF h.sizeof_size_t \in {2, 4, 8} /\ h.endianess \in {0, 1}
  THEN unsigned(h.sizeof_size_t, h.endianess = 1, input)
  ELSE Panicked("unimplemented")

\* A continuation byte of UTF-8, 0x80 to 0xBF.
continuation(x) == x >= 128 /\ x <= 191

\* The number of bytes of the sequence a byte starts, 0 when no sequence
\* starts with it (a continuation byte, 0xC0, 0xC1, 0xF5 and above).
width(x) ==
  CASE x < 128 -> 1
    [] x >= 194 /\ x <= 223 -> 2
    [] x >= 224 /\ x <= 239 -> 3
    [] x >= 240 /\ x <= 244 -> 4
    [] OTHER -> 0

\* The second byte of a sequence is in the range its first byte allows: no
\* overlong form, no surrogate, nothing above U+10FFFF.
second_ok(x, y) ==
  CASE x = 224 -> y >= 160 /\ y <= 191
    [] x = 237 -> y >= 128 /\ y <= 159
    [] x = 240 -> y >= 144 /\ y <= 191
    [] x = 244 -> y >= 128 /\ y <= 143
    [] OTHER -> continuation(y)

\* std::str::from_utf8 succeeds: the bytes are well-formed UTF-8.  The
\* first byte starts a sequence, and every byte that starts one is
\* followed by the continuation bytes of its width and then by the end or
\* by a byte that starts the next.
from_utf8_ok(bytes) ==
  /\ bytes # <<>> => ~ continuation(bytes[1])
  /\ \A k \in 1 .. Len(bytes) :
       continuation(bytes[k]) \/
         /\ width(bytes[k]) > 0
         /\ k + width(bytes[k]) - 1 <= Len(bytes)
         /\ \A j \in k + 1 .. k + width(bytes[k]) - 1 :
              IF j = k + 1 THEN second_ok(bytes[k], bytes[j])
              ELSE continuation(bytes[j])
         /\ k + width(bytes[k]) <= Len(bytes) =>
              ~ continuation(bytes[k + width(bytes[k])])

\* fn string: the text without its last byte.  The slice of line 416
\* panics when it would cut a multi-byte sequence, that is when the last
\* byte is a continuation byte.
string(input, h) ==
  Then(size_t(input, h), LAMBDA length :
  Then(take(length.val, length.rest), LAMBDA str :
  IF ~ from_utf8_ok(str.val) THEN Error
  ELSE IF length.val > 0 /\ continuation(Last(str.val)) THEN Panicked("slice")
  ELSE Parsed(str.rest, IF length.val > 0 THEN Front(str.val) ELSE str.val)))

\* fn local
local(input, h) ==
  Then(string(input, h), LAMBDA name :
  Then(int(name.rest, h), LAMBDA start :
  Then(int(start.rest, h), LAMBDA end :
  Parsed(end.rest, [name |-> name.val, start |-> start.val, end |-> end.val]))))

RECURSIVE element(_, _, _, _)
RECURSIVE many_m_n(_, _, _, _, _)

\* The least number of bytes an element takes when it is read.
least(what, h) ==
  CASE what = "int" -> h.sizeof_int
    [] what = "string" -> h.sizeof_size_t
    [] what = "number" -> h.sizeof_number
    [] what = "instruction" -> h.sizeof_instruction
    [] what = "local" -> h.sizeof_size_t + 2 * h.sizeof_int
    [] OTHER -> 1

\* The most elements the input can hold.
room(what, input, h) ==
  IF least(what, h) <= 0 THEN Len(input) ELSE Len(input) \div least(what, h)

\* The elements read so far followed by `n` more.
Further(first, n, what, h, checked) ==
  IF first.st # "Ok" THEN first
  ELSE CHOOSE result \in
         { IF more.st # "Ok" THEN more
           ELSE Parsed(more.rest, first.val \o more.val) :
             more \in { many_m_n(n, what, first.rest, h, checked) } } : TRUE

\* nom::multi::many_m_n(count as usize, count as usize, parser): exactly
\* `count` elements, read one after the other; the first failure, an
\* error or a panic of the element parser, is the failure of the whole,
\* and no element is read for a count of 0.  A count of more elements than
\* the input can hold (a negative count is such a usize) fails at an
\* element the input can hold or at the first one it cannot, so reading
\* one element more than it can hold fails the same way.  The elements are
\* read as a first and a second half.
many_m_n(count, what, input, h, checked) ==
  CASE count < 0 \/ count > room(what, input, h) + 1 ->
         many_m_n(room(what, input, h) + 1, what, input, h, checked)
    [] count = 0 -> Parsed(input, <<>>)
    [] count = 1 ->
         Then(element(what, input, h, checked), LAMBDA r : Parsed(r.rest, << r.val >>))
    [] OTHER ->
         CHOOSE result \in
           { Further(first, count - (count \div 2), what, h, checked) :
               first \in { many_m_n(count \div 2, what, input, h, checked) } } : TRUE

\* A table that holds what the input left can hold of the declared count.
table_short(what, input, h, checked) ==
  Then(int(input, h), LAMBDA count :
    many_m_n(IF count.val > room(what, count.rest, h)
             THEN room(what, count.rest, h) ELSE count.val,
             what, count.rest, h, checked))

\* A count followed by that many elements: `let (input, count) =
\* int(input, header)?; many_m_n(count as usize, count as usize, ...)`.
table(what, input, h, checked) ==
  Then(int(input, h), LAMBDA count :
    many_m_n(count.val, what, count.rest, h, checked))

\* `let (input, name) = what(input, header)?;` after the fields in `read`:
\* step holds the name of the field and its parser.
Field(read, step, h, checked) ==
  IF read.st # "Ok" THEN read
  ELSE Then(element(step[2], read.rest, h, checked), LAMBDA r :
         Parsed(r.rest, (step[1] :> r.val) @@ read.val))

\* A struct read field by field; steps holds the fields in order.
RECURSIVE struct(_, _, _, _)
struct(steps, input, h, checked) ==
  IF steps = <<>> THEN Parsed(input, <<>>)
  ELSE CHOOSE result \in { Field(read, Last(steps), h, checked) :
                             read \in { struct(Front(steps), input, h, checked) } } : TRUE

\* fn locals
locals(input, h, checked) == table("local", input, h, checked)

\* fn lines
lines(input, h, checked) == table("int", input, h, checked)

\* fn constants
constants(input, h, checked) ==
  struct(<< <<"strings", "strings">>, <<"numbers", "numbers">>,
            <<"functions", "functions">> >>, input, h, checked)

\* fn code without the assert! of line 457.
code_unchecked(input, h, checked) == table("instruction", input, h, checked)

\* fn code: the assert! of line 457 indexes the last instruction, decodes
\* its opcode and compares it with End; each of the three can panic.  In
\* a build with overflow checks (`checked`, which every parser that
\* reaches fn code hands on) code.len() - 1 panics for an empty code
\* before the index does, and the shift of op() panics for a size_op of
\* 64 or more.
code(input, h, checked) ==
  Then(table("instruction", input, h, checked), LAMBDA read :
  IF Len(read.val) = 0
    THEN IF checked THEN Panicked("overflow") ELSE Panicked("index")
  ELSE IF checked /\ op_overflows(Last(read.val)) THEN Panicked("overflow")
  ELSE IF ~ op_valid(Last(read.val)) THEN Panicked("expect")
  ELSE IF op(Last(read.val)) # End THEN Panicked("assert")
  ELSE read)

\* fn function
function(input, h, checked) ==
  struct(<< <<"source", "string">>, <<"line", "int">>,
            <<"param_count", "int">>, <<"is_vararg", "is_vararg">>,
            <<"max_stack_size", "int">>, <<"locals", "locals">>,
            <<"lines", "lines">>, <<"constants", "constants">>,
            <<"code", "code">> >>, input, h, checked)

\* The parsers handed to many_m_n and those that read a field, by name.
element(what, input, h, checked) ==
  CASE what = "local" -> local(input, h)
    [] what = "int" -> int(input, h)
    [] what = "string" -> string(input, h)
    [] what = "number" -> number(input, h)
    [] what = "function" -> function(input, h, checked)
    [] what = "instruction" -> instruction(input, h)
    [] what = "is_vararg" ->
         Then(le_u8(input), LAMBDA x : Parsed(x.rest, x.val = 1))
    [] what = "locals" -> locals(input, h, checked)
    [] what = "lines" -> lines(input, h, checked)
    [] what = "strings" -> table("string", input, h, checked)
    [] what = "numbers" -> table("number", input, h, checked)
    [] what = "functions" -> table("function", input, h, checked)
    [] what = "constants" -> constants(input, h, checked)
    [] what = "code" -> code(input, h, checked)

\* lua without the assertion on the input left.
lua_unchecked(bytes, checked) ==
  Then(header(bytes), LAMBDA h :
  Then(function(h.rest, h.val, checked), LAMBDA f :
  Parsed(f.rest, [header |-> h.val, function |-> f.val])))

\* fn lua
lua(bytes, checked) ==
  Then(header(bytes), LAMBDA h :
  Then(function(h.rest, h.val, checked), LAMBDA f :
  IF Len(f.rest) # 0 THEN Panicked("assert_eq")
  ELSE Parsed(f.rest, [header |-> h.val, function |-> f.val])))

(***************************************************************************)
(* Inputs.  The header widths of the modelled chunk, its constants pool    *)
(* and the instruction arrays handed to to_nodes.                          *)
(***************************************************************************)
\* Header field widths: 16-bit instruction words, 6 opcode bits, 5 B bits.
Hdr == [size_instruction |-> 16, size_op |-> 6, size_b |-> 5]

\* Words whose decoded operand is the given one (inverse of u, s, a/b).
MkU(o, n) == Instruction(n * (2 ^ Hdr.size_op) + o, Hdr)
MkS(o, n) ==
  MkU(o, n + (((2 ^ (Hdr.size_instruction - Hdr.size_op)) - 1) \div 2))
MkAB(o, x, y) == MkU(o, x * (2 ^ Hdr.size_b) + y)

\* A constants pool that holds nothing.
NoConstants == [strings |-> <<>>, numbers |-> <<>>, functions |-> <<>>]

\* struct Function, the fields the generator reads and those whose
\* formatting can panic.
Function(pc, c) == [param_count |-> pc, code |-> c, constants |-> NoConstants]

\* struct Constants of the modelled function.
ConstantPools ==
  { [strings |-> <<"print", "hi">>,
     numbers |-> <<7, 0>>,
     functions |-> << Function(0, <<MkU(End, 0)>>),
                      Function(2, <<MkU(Return, 0), MkU(End, 0)>>) >>] }

\* Longest instruction array over Alphabet that is enumerated exhaustively.
MaxLen == 3

Alphabet ==
  { MkS(PushInt, 5), MkU(GetGlobal, 0), MkS(AddInt, 3), MkU(Add, 0),
    MkU(Return, 1), MkU(SetGlobal, 0), MkS(JumpEqual, 2), MkS(Jump, 1),
    MkS(JumpIfTrue, 0), MkU(PushSelf, 0), MkAB(Call, 2, 0),
    MkAB(SetList, 0, 0), MkAB(Closure, 1, 0), MkU(End, 0) }

\* Longer instruction arrays, one per shape of interest.
Scenarios ==
  { \* Scenario A
    << MkS(PushInt, 5), MkS(AddInt, 3), MkU(Return, 1) >>,
    \* Scenario B, with Call operand A = 1 and with A = 2
    << MkU(GetGlobal, 0), MkU(PushString, 1), MkAB(Call, 1, 0) >>,
    << MkU(GetGlobal, 0), MkU(PushString, 1), MkAB(Call, 2, 0) >>,
    \* Scenario C, alone and followed by a statement
    << MkS(PushInt, 5), MkS(PushInt, 3), MkS(JumpEqual, 2),
       MkU(Return, 0), MkU(End, 0) >>,
    << MkS(PushInt, 5), MkS(PushInt, 3), MkS(JumpEqual, 2),
       MkS(PushInt, 1), MkU(SetGlobal, 0), MkU(Return, 0), MkU(End, 0) >>,
    \* a jump body holding a jump
    << MkU(GetGlobal, 0), MkS(JumpIfFalse, 4), MkU(GetGlobal, 1),
       MkS(JumpIfTrue, 1), MkU(Return, 0), MkU(Return, 0), MkU(End, 0) >>,
    \* a jump over more instructions than remain
    << MkU(GetGlobal, 0), MkS(JumpIfTrue, 3), MkU(Return, 0), MkU(End, 0) >>,
    \* backward comparison jump with its two operands
    << MkS(PushInt, 5), MkU(GetGlobal, 0), MkS(JumpLessThan, -2),
       MkU(End, 0) >>,
    \* a value produced before a jump, consumed inside its body
    << MkS(PushInt, 5), MkS(Jump, 1), MkU(Return, 1), MkU(End, 0) >>,
    \* a closure assigned to a global
    << MkAB(Closure, 1, 0), MkU(SetGlobal, 0), MkU(End, 0) >>,
    << MkU(GetLocal, 0), MkAB(Closure, 1, 1), MkU(SetGlobal, 1),
       MkU(End, 0) >>,
    \* an unrenderable statement between renderable ones
    << MkS(PushInt, 5), MkU(SetGlobal, 0), MkU(Pop, 0), MkS(PushInt, 3),
       MkU(SetGlobal, 1), MkU(End, 0) >>,
    \* words whose low bits name no opcode
    << MkS(PushInt, 5), MkU(63, 2), MkU(End, 0) >>,
    << MkU(49, 0) >>,
    \* a producer of three values feeding a consumer of one
    << MkU(PushNil, 3), MkU(SetGlobal, 0), MkU(End, 0) >>,
    \* the loop opcodes, with positive offsets
    << MkS(ForPrep, 2), MkS(PushInt, 1), MkS(PushInt, 2), MkS(PushInt, 3),
       MkS(ForLoop, 1), MkS(PushNilJump, 1), MkU(End, 0) >>,
    << MkS(LForPrep, 1), MkS(PushInt, 5), MkS(LForLoop, 1), MkU(End, 0) >>,
    \* the opcodes pop_count has no rule for, after other instructions and
    \* in a jump body
    << MkS(PushInt, 5), MkU(SetMap, 1), MkU(End, 0) >>,
    << MkU(GetGlobal, 0), MkS(PushInt, 5), MkAB(TailCall, 1, 0), MkU(End, 0) >>,
    << MkS(Jump, 2), MkAB(SetList, 0, 1), MkU(Return, 0), MkU(End, 0) >>,
    \* the other comparison jumps, over bodies of none, one and three
    \* instructions
    << MkS(PushInt, 5), MkU(GetGlobal, 0), MkS(JumpNotEqual, 0),
       MkU(End, 0) >>,
    << MkU(GetGlobal, 0), MkS(PushInt, 5), MkS(JumpLessThanEqual, 1),
       MkU(Return, 0), MkU(End, 0) >>,
    << MkS(PushInt, 5), MkS(PushInt, 3), MkS(JumpGreaterThan, 3),
       MkS(PushInt, 1), MkU(SetGlobal, 0), MkU(Return, 0), MkU(End, 0) >>,
    << MkU(GetGlobal, 0), MkU(GetGlobal, 1), MkS(JumpGreaterThanEqual, 1),
       MkU(End, 0) >>,
    \* two values returned, and a call with two arguments
    << MkS(PushInt, 5), MkS(PushInt, 3), MkU(Return, 2), MkU(End, 0) >>,
    << MkU(GetGlobal, 0), MkS(PushInt, 5), MkU(PushString, 1),
       MkAB(Call, 3, 0), MkU(End, 0) >> }

RECURSIVE SeqsUpTo(_, _)
SeqsUpTo(S, n) ==
  IF n = 0 THEN { <<>> }
  ELSE LET shorter == SeqsUpTo(S, n - 1) IN
       shorter \cup { Append(q, x) : q \in { t \in shorter : Len(t) = n - 1 },
                                    x \in S }

Programs == Scenarios \cup SeqsUpTo(Alphabet, MaxLen)

\* A constants pool whose second nested function holds a word that names
\* no opcode before its End, and functions that make a closure of it.
Unformattable ==
  { [pool EXCEPT !.functions[2].code = << MkU(63, 0), MkU(End, 0) >>] :
      pool \in ConstantPools }
Enclosing ==
  { << MkAB(Closure, 1, 0), MkU(SetGlobal, 0), MkU(End, 0) >>,
    << MkU(End, 0) >> }

\* Header widths that parser::header accepts (it checks none) and under
\* which operand arithmetic overflows: size_instruction below size_op,
\* a left shift by 66 in s(), a right shift by 66 in a(), and the shifts
\* by size_op of op() and u() with size_op 70 and 64, the bits of a usize.
Short == [size_instruction |-> 4, size_op |-> 6, size_b |-> 1]
Long == [size_instruction |-> 72, size_op |-> 6, size_b |-> 5]
WideB == [size_instruction |-> 16, size_op |-> 6, size_b |-> 60]
WideOp == [size_instruction |-> 86, size_op |-> 70, size_b |-> 5]
WordOp == [size_instruction |-> 80, size_op |-> 64, size_b |-> 5]

\* Functions under these widths: a PushInt left pending, a PushInt
\* returned, a jump over one instruction, a Call, and words whose bits
\* above the sixth are set under an opcode width of 70 and of 64.
Overflowing ==
  { << Instruction(PushInt, Short), Instruction(End, Short) >>,
    << Instruction(64 + PushInt, WideOp), Instruction(64 + Return, WideOp),
       Instruction(End, WideOp) >>,
    << Instruction(64 + End, WideOp) >>,
    << Instruction(PushInt, WordOp) >>,
    << Instruction(63, WordOp) >>,
    << Instruction(3 * 64 + PushInt, Long), Instruction(64 + Return, Long),
       Instruction(End, Long) >>,
    << Instruction(2 * 64 + Jump, Long), Instruction(End, Long),
       Instruction(End, Long) >>,
    << Instruction(Call, WideB), Instruction(End, WideB) >> }

(***************************************************************************)
(* to_nodes.  Each activation is a frame; the recursion of to_nodes on a   *)
(* jumped-over range is the stack `frames`, innermost activation last.     *)
(***************************************************************************)
VARIABLES
  chunk,               \* the chunk file `input` was read from
  input,               \* the bytes handed to parser::lua
  parsed,              \* what parser::lua made of them
  instructions,        \* the instruction array main hands to to_nodes
  function_constants,  \* function.constants
  frames,              \* activations of to_nodes
  nodes,               \* main's `nodes` once to_nodes has returned
  output,              \* main's `code`: the texts rendered so far
  status,              \* "parse", "to_nodes", "render", "done" or "panic"
  failure              \* where the program panicked, "" while it has not

\* No chunk file: the function is handed over as it is.
NoFile == [magic |-> <<>>]

\* parser::lua has not run.
NotParsed == [st |-> "None", rest |-> <<>>, val |-> <<>>, why |-> ""]

vars == <<chunk, input, parsed, instructions, function_constants, frames,
          nodes, output, status, failure>>

\* What no step of to_nodes or of the generator changes.
given == <<chunk, input, parsed, instructions, function_constants>>

\* struct Node
Node(i, ch) == [instruction |-> i, children |-> ch]

NoInstruction == Instruction(0, Hdr)

\* The locals of to_nodes on entry with the queue in the order of the
\* array, so that pop_back takes the last instruction first.
Entry_unreversed(array) ==
  [queue |-> array, unused |-> <<>>, terminated |-> <<>>,
   instruction |-> NoInstruction, children |-> <<>>, needed |-> 0,
   pc |-> "loop"]

\* The locals of to_nodes on entry (lines 529-531); pc is the position:
\* "loop" at the head of the while loop, "pop" in the operand loop,
\* "call" waiting for the recursive call, "build" after it returned.
Entry(array) ==
  [queue |-> Reverse(array), unused |-> <<>>, terminated |-> <<>>,
   instruction |-> NoInstruction, children |-> <<>>, needed |-> 0,
   pc |-> "loop"]

Top == frames[Len(frames)]
SetTop(f) == [frames EXCEPT ![Len(frames)] = f]

Panic(where) ==
  /\ status' = "panic"
  /\ failure' = where
  /\ UNCHANGED <<given, frames, nodes, output>>

\* The first panic of a sequence of outcomes, "" when there is none.
first_panic(whys) ==
  IF \A k \in 1 .. Len(whys) : whys[k] = "" THEN ""
  ELSE whys[CHOOSE k \in 1 .. Len(whys) :
              whys[k] # "" /\ \A j \in 1 .. k - 1 : whys[j] = ""]

\* Formatting a function with {:#?}: the derived Debug of Function formats
\* its fields in the order of the struct, the constants with the nested
\* functions before the code, and every instruction through Debug for
\* Instruction; the first panic ends it.
RECURSIVE fmt_panics(_, _, _)
fmt_panics(words, consts, checked) ==
  first_panic(
    [k \in 1 .. Len(consts.functions) |->
       fmt_panics(consts.functions[k].code, consts.functions[k].constants,
                  checked)]
    \o [k \in 1 .. Len(words) |-> fmt(words[k], checked)])

\* log::LevelFilter, set by filter_level(Info) and then by RUST_LOG
\* (parse_default_env, line 711); log::info! evaluates its arguments at
\* the levels that let Info through.
LevelFilters == {"off", "error", "warn", "info", "debug", "trace"}
info_enabled(level) == level \in {"info", "debug", "trace"}

\* Lines 725-727: main logs the parsed function and calls to_nodes on its
\* code.  The level of the logger and the overflow checks of the build
\* decide whether formatting the function panics.
LogFunction ==
  /\ status = "parsed"
  /\ \E level \in LevelFilters, checked \in BOOLEAN :
       LET why == IF info_enabled(level)
                  THEN fmt_panics(instructions, function_constants, checked)
                  ELSE ""
       IN IF why # "" THEN Panic(why)
          ELSE /\ frames' = << Entry(instructions) >>
               /\ status' = "to_nodes"
               /\ UNCHANGED <<given, nodes, output, failure>>

\* Lines 533-547: take the next instruction and resolve its counts,
\* push_count before pop_count.  Where the arithmetic of op or of an
\* operand read overflows, a build with overflow checks panics and any
\* other build goes on with the wrapped value.
TakeInstruction ==
  /\ status = "to_nodes"
  /\ Top.pc = "loop"
  /\ Top.queue # <<>>
  /\ LET inst == Last(Top.queue) IN
       \/ /\ \/ op_overflows(inst)
             \/ /\ op_valid(inst)
                /\ push_count_overflows(inst)
                     \/ (~ pop_count_panics(inst) /\ pop_count_overflows(inst))
          /\ Panic("overflow")
       \/ IF ~ op_valid(inst) THEN Panic("op")
          ELSE IF pop_count_panics(inst) THEN Panic("pop_count")
          ELSE /\ frames' = SetTop([Top EXCEPT !.queue = Front(Top.queue),
                                              !.instruction = inst,
                                              !.children = <<>>,
                                              !.needed = pop_count(inst),
                                              !.pc = "pop"])
               /\ UNCHANGED <<given, nodes, output, status,
                              failure>>

\* The operand loop, ending quietly when `unused` runs out.
PopUnused_lenient ==
  /\ status = "to_nodes"
  /\ Top.pc = "pop"
  /\ Top.needed # 0
  /\ LET pushed == push_count(Last(Top.unused).instruction) IN
       frames' = SetTop(
         IF Top.unused = <<>> THEN [Top EXCEPT !.needed = 0]
         ELSE [Top EXCEPT !.unused = Front(Top.unused),
                          !.needed = IF pushed > Top.needed THEN 0
                                     ELSE Top.needed - pushed,
                          !.children = Append(Top.children, Last(Top.unused))])
  /\ UNCHANGED <<given, nodes, output, status, failure>>

\* Lines 549-553: one iteration of the operand loop.  `needed` is a usize:
\* when the producer pushes more than is still needed the subtraction
\* overflows, which panics in a build with overflow checks and wraps
\* otherwise; a wrapped value 2^64 + n is held as the negative n.
PopUnused ==
  /\ status = "to_nodes"
  /\ Top.pc = "pop"
  /\ Top.needed # 0
  /\ IF Top.unused = <<>> THEN Panic("unused.pop_back")
     ELSE LET next_unused == Last(Top.unused)
              pushed == push_count(next_unused.instruction)
              popped == [Top EXCEPT !.unused = Front(Top.unused),
                                    !.needed = Top.needed - pushed,
                                    !.children = Append(Top.children,
                                                        next_unused)]
          IN \/ /\ Top.needed >= 0
                /\ pushed > Top.needed
                /\ Panic("needed")
             \/ /\ frames' = SetTop(popped)
                /\ UNCHANGED <<given, nodes, output,
                               status, failure>>

\* Line 555
Expands(inst) == is_jump(op(inst)) /\ s(inst) > 0

\* The jump expansion without the .rev() of line 559.
ExpandJump_unreversed ==
  /\ status = "to_nodes"
  /\ Top.pc = "pop"
  /\ Top.needed = 0
  /\ Expands(Top.instruction)
  /\ LET k == s(Top.instruction)
         at == Len(Top.queue) - k
     IN IF at < 0 THEN Panic("split_off")
        ELSE LET jump == SubSeq(Top.queue, at + 1, Len(Top.queue))
                 caller == [Top EXCEPT !.queue = SubSeq(Top.queue, 1, at),
                                       !.pc = "call"]
             IN /\ frames' = Append(SetTop(caller), Entry(jump))
                /\ UNCHANGED <<given, nodes, output, status, failure>>

\* The jump expansion with the caller's pending nodes handed to the call.
ExpandJump_sharing ==
  /\ status = "to_nodes"
  /\ Top.pc = "pop"
  /\ Top.needed = 0
  /\ Expands(Top.instruction)
  /\ LET k == s(Top.instruction)
         at == Len(Top.queue) - k
     IN IF at < 0 THEN Panic("split_off")
        ELSE LET jump == Reverse(SubSeq(Top.queue, at + 1, Len(Top.queue)))
                 caller == [Top EXCEPT !.queue = SubSeq(Top.queue, 1, at),
                                       !.unused = <<>>,
                                       !.pc = "call"]
             IN /\ frames' = Append(SetTop(caller),
                                    [Entry(jump) EXCEPT !.unused = Top.unused])
                /\ UNCHANGED <<given, nodes, output, status, failure>>

\* The jump expansion taking no more instructions than the queue holds.
ExpandJump_truncating ==
  /\ status = "to_nodes"
  /\ Top.pc = "pop"
  /\ Top.needed = 0
  /\ Expands(Top.instruction)
  /\ LET k == s(Top.instruction)
         at == IF Len(Top.queue) < k THEN 0 ELSE Len(Top.queue) - k
         jump == Reverse(SubSeq(Top.queue, at + 1, Len(Top.queue)))
         caller == [Top EXCEPT !.queue = SubSeq(Top.queue, 1, at),
                               !.pc = "call"]
     IN /\ frames' = Append(SetTop(caller), Entry(jump))
        /\ UNCHANGED <<given, nodes, output, status, failure>>

\* Lines 555-561: split the jumped-over instructions off the queue and
\* call to_nodes on them.  Where the arithmetic of s() overflows, a build
\* with overflow checks panics in the test of line 555.
ExpandJump ==
  /\ status = "to_nodes"
  /\ Top.pc = "pop"
  /\ Top.needed = 0
  /\ is_jump(op(Top.instruction))
  /\ \/ /\ s_overflows(Top.instruction)
        /\ Panic("overflow")
     \/ /\ Expands(Top.instruction)
        /\ LET k == s(Top.instruction)
               at == Len(Top.queue) - k
           IN IF at < 0 THEN Panic("split_off")
              ELSE LET jump == Reverse(SubSeq(Top.queue, at + 1,
                                              Len(Top.queue)))
                       caller == [Top EXCEPT
                                    !.queue = SubSeq(Top.queue, 1, at),
                                    !.pc = "call"]
                   IN /\ frames' = Append(SetTop(caller), Entry(jump))
                      /\ UNCHANGED <<given, nodes, output,
                                     status, failure>>

\* The node construction with a statement put in front of `terminated`.
BuildNode_prepend ==
  /\ status = "to_nodes"
  /\ \/ Top.pc = "build"
     \/ Top.pc = "pop" /\ Top.needed = 0 /\ ~ Expands(Top.instruction)
  /\ LET node == Node(Top.instruction, Top.children)
         filed == IF push_count(Top.instruction) # 0
                  THEN [Top EXCEPT !.unused = Append(Top.unused, node)]
                  ELSE [Top EXCEPT !.terminated = <<node>> \o Top.terminated]
     IN frames' = SetTop([filed EXCEPT !.pc = "loop"])
  /\ UNCHANGED <<given, nodes, output, status, failure>>

\* The node construction with every node filed in `terminated`.
BuildNode_terminated ==
  /\ status = "to_nodes"
  /\ \/ Top.pc = "build"
     \/ Top.pc = "pop" /\ Top.needed = 0 /\ ~ Expands(Top.instruction)
  /\ LET node == Node(Top.instruction, Top.children)
         filed == [Top EXCEPT !.terminated = Append(Top.terminated, node)]
     IN frames' = SetTop([filed EXCEPT !.pc = "loop"])
  /\ UNCHANGED <<given, nodes, output, status, failure>>

\* Lines 564-570: build the node and file it.
BuildNode ==
  /\ status = "to_nodes"
  /\ \/ Top.pc = "build"
     \/ Top.pc = "pop" /\ Top.needed = 0 /\ ~ Expands(Top.instruction)
  /\ LET node == Node(Top.instruction, Top.children)
         filed == IF push_count(Top.instruction) # 0
                  THEN [Top EXCEPT !.unused = Append(Top.unused, node)]
                  ELSE [Top EXCEPT !.terminated = Append(Top.terminated, node)]
     IN frames' = SetTop([filed EXCEPT !.pc = "loop"])
  /\ UNCHANGED <<given, nodes, output, status, failure>>

\* The return of to_nodes without the assert_eq! of line 573.
ReturnNodes_unchecked ==
  /\ status = "to_nodes"
  /\ Top.pc = "loop"
  /\ Top.queue = <<>>
  /\ IF Len(frames) = 1
     THEN /\ nodes' = Top.terminated
          /\ frames' = <<>>
          /\ status' = "render"
     ELSE LET caller == frames[Len(frames) - 1] IN
          /\ frames' = [Front(frames) EXCEPT ![Len(frames) - 1] =
               [caller EXCEPT !.children = caller.children \o Top.terminated,
                              !.pc = "build"]]
          /\ UNCHANGED <<nodes, status>>
  /\ UNCHANGED <<given, output, failure>>

\* The return of to_nodes with the forest of a recursive call left out of
\* the caller's children.
ReturnNodes_discarding ==
  /\ status = "to_nodes"
  /\ Top.pc = "loop"
  /\ Top.queue = <<>>
  /\ IF Len(Top.unused) # 0 THEN Panic("assert_eq")
     ELSE /\ IF Len(frames) = 1
             THEN /\ nodes' = Top.terminated
                  /\ frames' = <<>>
                  /\ status' = "render"
             ELSE LET caller == frames[Len(frames) - 1] IN
                  /\ frames' = [Front(frames) EXCEPT ![Len(frames) - 1] =
                       [caller EXCEPT !.pc = "build"]]
                  /\ UNCHANGED <<nodes, status>>
          /\ UNCHANGED <<given, output, failure>>

\* Lines 573-574, and the caller's side of the return: line 561 in a
\* recursive call, line 727 in main.
ReturnNodes ==
  /\ status = "to_nodes"
  /\ Top.pc = "loop"
  /\ Top.queue = <<>>
  /\ IF Len(Top.unused) # 0 THEN Panic("assert_eq")
     ELSE /\ IF Len(frames) = 1
             THEN /\ nodes' = Top.terminated
                  /\ frames' = <<>>
                  /\ status' = "render"
             ELSE LET caller == frames[Len(frames) - 1] IN
                  /\ frames' = [Front(frames) EXCEPT ![Len(frames) - 1] =
                       [caller EXCEPT !.children = caller.children \o Top.terminated,
                                      !.pc = "build"]]
                  /\ UNCHANGED <<nodes, status>>
          /\ UNCHANGED <<given, output, failure>>

(***************************************************************************)
(* process_node.  A rendering is [ok |-> TRUE, text |-> the String] or,    *)
(* when process_node panics, Failed.                                       *)
(***************************************************************************)
Ok(t) == [ok |-> TRUE, text |-> t]
Failed == [ok |-> FALSE, text |-> ""]

\* [String]::join
RECURSIVE join(_, _)
join(q, sep) ==
  IF Len(q) = 0 THEN ""
  ELSE IF Len(q) = 1 THEN q[1]
  ELSE q[1] \o sep \o join(Tail(q), sep)

\* str::split('\n'): the pieces of t between line feeds, at least one.
RECURSIVE split(_, _)
split(t, from) ==
  LET ends == { k \in from .. Len(t) : SubSeq(t, k, k) = "\n" } IN
  IF ends = {} THEN << SubSeq(t, from, Len(t)) >>
  ELSE LET k == CHOOSE e \in ends : \A other \in ends : e <= other
       IN << SubSeq(t, from, k - 1) >> \o split(t, k + 1)

\* body.iter().flat_map(|line| line.split('\n')).collect()
RECURSIVE flat_map_split(_)
flat_map_split(body) ==
  IF body = <<>> THEN <<>>
  ELSE split(body[1], 1) \o flat_map_split(Tail(body))

\* (0..n).map(|_| t).collect::<String>()
RECURSIVE repeat(_, _)
repeat(t, n) == IF n <= 0 THEN "" ELSE t \o repeat(t, n - 1)

\* f64::to_string of a whole number, and of its negation (-0.0 is "-0").
number_to_string(n) == ToString(n)
negated_to_string(n) == IF n >= 0 THEN "-" \o ToString(n) ELSE ToString(-n)

\* An arm that yields the empty text, as the End arm does.
todo_empty == Ok("")

\* Line 695: todo!()
todo == Failed

\* The comparison the jump itself makes, not inverted.
inverted_plain(o) ==
  CASE o = JumpNotEqual -> "~="
    [] o = JumpEqual -> "=="
    [] o = JumpLessThan -> "<"
    [] o = JumpLessThanEqual -> "<="
    [] o = JumpGreaterThan -> ">"
    [] o = JumpGreaterThanEqual -> ">="

\* Lines 653-661
inverted(o) ==
  CASE o = JumpNotEqual -> "=="
    [] o = JumpEqual -> "~="
    [] o = JumpLessThan -> ">="
    [] o = JumpLessThanEqual -> ">"
    [] o = JumpGreaterThan -> "<="
    [] o = JumpGreaterThanEqual -> "<"

\* Lines 586-696: the match on the opcode, given the rendered children.
render(inst, children, locs, consts) ==
  LET o == op(inst)
      n == Len(children)
      strings == consts.strings
      numbers == consts.numbers
      functions == consts.functions
      string_ok == u(inst) < Len(strings)
      str == strings[u(inst) + 1]
      number_ok == u(inst) < Len(numbers)
      num == numbers[u(inst) + 1]
  IN
  CASE o = End -> Ok("")
    [] o = Return -> Ok("return " \o join(children, ", "))
    [] o = Call ->
         IF n = 0 THEN Failed
         ELSE Ok(children[n] \o "(" \o join(SubSeq(children, 1, n - 1), ", ")
                 \o ")")
    [] o = PushNil -> Ok(repeat("nil", u(inst)))
    [] o = PushInt -> Ok(ToString(s(inst)))
    [] o = PushString ->
         IF string_ok THEN Ok("\"" \o str \o "\"") ELSE Failed
    [] o = PushNumber ->
         IF number_ok THEN Ok(number_to_string(num)) ELSE Failed
    [] o = PushNegativeNumber ->
         IF number_ok THEN Ok(negated_to_string(num)) ELSE Failed
    [] o = GetLocal ->
         IF u(inst) < Len(locs) THEN Ok(locs[u(inst) + 1].name)
         ELSE Ok("local_" \o ToString(u(inst)))
    [] o = GetGlobal -> IF string_ok THEN Ok(str) ELSE Failed
    [] o = GetDotted ->
         IF n >= 1 /\ string_ok THEN Ok(children[1] \o "." \o str)
         ELSE Failed
    [] o = PushSelf ->
         IF n >= 1 /\ string_ok THEN Ok(children[1] \o ":" \o str)
         ELSE Failed
    [] o = CreateTable ->
         IF u(inst) > 0
         THEN Ok("{n=" \o ToString(u(inst)) \o "}")
         ELSE Ok("{}")
    [] o = SetGlobal ->
         IF string_ok /\ n >= 1 THEN Ok(str \o " = " \o children[1])
         ELSE Failed
    [] o = SetTable ->
         IF n >= 3
         THEN Ok(children[3] \o "[" \o children[2] \o "] = " \o children[1])
         ELSE Failed
    [] o = AddInt ->
         IF n >= 1 THEN Ok(children[1] \o " + " \o ToString(s(inst)))
         ELSE Failed
    [] o >= JumpNotEqual /\ o <= JumpGreaterThanEqual ->
         IF n < 2 THEN Failed
         ELSE LET body == flat_map_split(SubSeq(children, 3, n)) IN
              Ok("if (" \o children[2] \o " " \o inverted(o) \o " "
                 \o children[1] \o ") then\n  " \o join(body, "\n  ")
                 \o "\nend")
    [] o >= JumpIfTrue /\ o <= JumpIfFalse ->
         IF n < 1 THEN Failed
         ELSE LET body == flat_map_split(SubSeq(children, 2, n)) IN
              Ok("if (" \o (IF o = JumpIfTrue THEN "not " ELSE "") \o " "
                 \o children[1] \o ") then\n  " \o join(body, "\n  ")
                 \o "\nend")
    [] o = Closure ->
         IF a(inst) >= Len(functions) THEN Failed
         ELSE LET fun == functions[a(inst) + 1]
                  count == IF fun.param_count > 0
                           THEN fun.param_count ELSE 0
                  args == [k \in 1 .. count |-> "local_" \o ToString(k - 1)]
              IN Ok("function(" \o join(args, ", ") \o ")\n"
                    \o join(children, "\n") \o "\nend")
    [] OTHER -> todo

\* Lines 578-697: the children are rendered first, in order; a panic in
\* any of them is a panic of the whole call.
RECURSIVE process_node(_, _, _)
process_node(node, locs, consts) ==
  LET children == [k \in 1 .. Len(node.children) |->
                     process_node(node.children[k], locs, consts)]
  IN IF ~ op_valid(node.instruction) THEN Failed
     ELSE IF \E k \in 1 .. Len(children) : ~ children[k].ok THEN Failed
     ELSE render(node.instruction,
                 [k \in 1 .. Len(children) |-> children[k].text],
                 locs, consts)

(***************************************************************************)
(* main, after to_nodes has returned.                                      *)
(***************************************************************************)
\* The operand reads of process_node on a node and on the nodes below it
\* whose arithmetic overflows: op() for every node, s() for PushInt and
\* AddInt, a() for Closure.
RECURSIVE process_node_overflows(_)
process_node_overflows(node) ==
  \/ op_overflows(node.instruction)
  \/ op(node.instruction) \in {PushInt, AddInt} /\ s_overflows(node.instruction)
  \/ op(node.instruction) = Closure /\ a_overflows(node.instruction)
  \/ \E k \in 1 .. Len(node.children) :
       process_node_overflows(node.children[k])

\* Lines 730-733: the next top-level node is rendered with no locals.
\* Where an operand read overflows, a build with overflow checks panics
\* in process_node.
RenderNode ==
  /\ status = "render"
  /\ Len(output) < Len(nodes)
  /\ \/ /\ process_node_overflows(nodes[Len(output) + 1])
        /\ Panic("process_node")
     \/ LET text == process_node(nodes[Len(output) + 1], <<>>, function_constants) IN
          IF ~ text.ok THEN Panic("process_node")
          ELSE /\ output' = Append(output, text.text)
               /\ UNCHANGED <<given, frames, nodes, status,
                              failure>>

\* Lines 733-736: every node is rendered; the text is logged.
Finish ==
  /\ status = "render"
  /\ Len(output) = Len(nodes)
  /\ status' = "done"
  /\ UNCHANGED <<given, frames, nodes, output, failure>>

\* Line 723: main holds the parsed function, its code and its constants.
Init ==
  /\ chunk = NoFile
  /\ input = <<>>
  /\ parsed = NotParsed
  /\ \/ instructions \in Programs /\ function_constants \in ConstantPools
     \/ instructions \in Enclosing /\ function_constants \in Unformattable
     \/ instructions \in Overflowing /\ function_constants \in ConstantPools
  /\ frames = <<>>
  /\ nodes = <<>>
  /\ output = <<>>
  /\ status = "parsed"
  /\ failure = ""

Next ==
  \/ LogFunction
  \/ TakeInstruction
  \/ PopUnused
  \/ ExpandJump
  \/ BuildNode
  \/ ReturnNodes
  \/ RenderNode
  \/ Finish

Spec == Init /\ [][Next]_vars

\* Lines 528-575: a step of to_nodes, in whichever activation is running.
to_nodes_step ==
  \/ TakeInstruction
  \/ PopUnused
  \/ ExpandJump
  \/ BuildNode
  \/ ReturnNodes

\* to_nodes runs in the one thread of main: while it has a next step it
\* takes it.
SpecLive == Init /\ [][Next]_vars /\ WF_vars(to_nodes_step)

(***************************************************************************)
(* process_node on forests that need not come from to_nodes: one node of   *)
(* any opcode over a few rendered operands.                                *)
(***************************************************************************)
\* Largest unsigned operand and most children of the node handed over.
MaxOperand == 1
MaxChildren == 3

RenderLeaves == { Node(MkS(PushInt, 5), <<>>), Node(MkU(GetGlobal, 0), <<>>) }

RenderForests ==
  { << Node(MkU(o, x), ch) >> :
      o \in OpCode, x \in 0 .. MaxOperand, ch \in SeqsUpTo(RenderLeaves, MaxChildren) }

InitRender ==
  /\ chunk = NoFile
  /\ input = <<>>
  /\ parsed = NotParsed
  /\ instructions = <<>>
  /\ function_constants \in ConstantPools
  /\ frames = <<>>
  /\ nodes \in RenderForests
  /\ output = <<>>
  /\ status = "render"
  /\ failure = ""

NextRender ==
  \/ RenderNode
  \/ Finish

SpecRender == InitRender /\ [][NextRender]_vars

(***************************************************************************)
(* to_nodes on single instructions of every opcode, under several header   *)
(* widths and with operands at the edges of the operand fields.            *)
(***************************************************************************)
\* Header field widths: size_instruction, size_op, size_b.
Widths ==
  { Hdr,
    [size_instruction |-> 7, size_op |-> 6, size_b |-> 1],
    [size_instruction |-> 20, size_op |-> 8, size_b |-> 4],
    [size_instruction |-> 30, size_op |-> 6, size_b |-> 9] }

\* The unsigned operands tried under widths h: around zero, around the
\* width of B, around the bias of the signed operand, and the largest
\* that fits the word and the first that does not.
Edges(h) ==
  LET bits == h.size_instruction - h.size_op
      half == ((2 ^ bits) - 1) \div 2
  IN { x \in { 0, 1, 2, 3, (2 ^ h.size_b) - 1, 2 ^ h.size_b, (2 ^ h.size_b) + 1,
               half - 1, half, half + 1, half + 2, (2 ^ bits) - 1, 2 ^ bits } :
         x >= 0 }

\* Header widths under which the arithmetic of an operand overflows, and
\* the bits set above the sixth of the words tried under them.
Overwide == { Long, WideB, WideOp, WordOp }
MaxAbove == 3

Singles ==
  UNION { { << Instruction(x * (2 ^ h.size_op) + o, h) >> :
              o \in OpCode, x \in Edges(h) } : h \in Widths }
  \cup { << Instruction(x * 64 + o, h) >> :
           o \in OpCode, x \in 0 .. MaxAbove, h \in Overwide }

InitSingle ==
  /\ chunk = NoFile
  /\ input = <<>>
  /\ parsed = NotParsed
  /\ instructions \in Singles
  /\ function_constants \in ConstantPools
  /\ frames = <<>>
  /\ nodes = <<>>
  /\ output = <<>>
  /\ status = "parsed"
  /\ failure = ""

SpecSingle == InitSingle /\ [][Next]_vars

(***************************************************************************)
(* The chunks handed to parser::lua: a header for each combination of the  *)
(* encoding bytes below, followed by one serialized function.              *)
(***************************************************************************)
\* Most numbers and most nested functions in a constants pool.
MaxNumbers == 1
MaxNested == 1

Endianesses == {0, 1, 2}
IntSizes == {2, 4, 8}
SizeTSizes == {2, 4, 1}
InstructionSizes == {2, 4, 1}
NumberSizes == {4, 8, 2}

ChunkHeaders ==
  { [endianess |-> e, sizeof_int |-> si, sizeof_size_t |-> ss,
     sizeof_instruction |-> sn, size_instruction |-> Hdr.size_instruction,
     size_op |-> Hdr.size_op, size_b |-> Hdr.size_b, sizeof_number |-> sf] :
      e \in Endianesses, si \in IntSizes, ss \in SizeTSizes,
      sn \in InstructionSizes, sf \in NumberSizes }

\* The instruction words of a function: ending in End, not ending in End,
\* ending in a word that names no opcode, and none at all.
CodeShapes ==
  { << MkU(End, 0).instruction >>,
    << MkU(Return, 0).instruction, MkU(End, 0).instruction >>,
    << MkU(Return, 0).instruction >>,
    << MkU(End, 0).instruction, 63 >>,
    << >> }

\* The tables of a function that carry a count prefix.
Tables == {"locals", "lines", "strings", "numbers", "functions", "code"}

\* A function without nested functions.  `over` names the table whose
\* count prefix declares one element more than the chunk holds, `nul` is
\* the byte that ends its source name.
Leaf(words, count) ==
  [source |-> <<64, 97>>, line |-> 0, param_count |-> 1, is_vararg |-> 0,
   max_stack_size |-> 2, locals |-> << [name |-> <<120>>, start |-> 0, end |-> 1] >>,
   lines |-> [k \in 1 .. Len(words) |-> k], strings |-> << <<104, 105>>, <<>> >>,
   numbers |-> [k \in 1 .. count |-> k], functions |-> <<>>, code |-> words,
   over |-> "none", nul |-> 0]

\* Functions with up to MaxNested nested functions: every code shape at
\* the top over well-formed nested functions, and every code shape in the
\* nested functions under a well-formed top.
Prototypes ==
  { [Leaf(words, count) EXCEPT
       !.functions = [k \in 1 .. nested |-> Leaf(<< MkU(End, 0).instruction >>, 0)]] :
      words \in CodeShapes, count \in 0 .. MaxNumbers, nested \in 0 .. MaxNested }
  \cup
  { [Leaf(<< MkU(Return, 0).instruction, MkU(End, 0).instruction >>, 0) EXCEPT
       !.functions = [k \in 1 .. nested |-> Leaf(words, count)]] :
      words \in CodeShapes, count \in 0 .. MaxNumbers, nested \in 1 .. MaxNested }

\* Well-formed functions with one count prefix raised.
Overdeclared ==
  { [Leaf(<< MkU(Return, 0).instruction, MkU(End, 0).instruction >>, 1) EXCEPT
       !.over = which] : which \in Tables }

\* The same over a well-formed nested function, which is read before the
\* code, the last table, is found short.
OverdeclaredOuter ==
  { [f EXCEPT !.functions = << Leaf(<< MkU(End, 0).instruction >>, 0) >>] :
      f \in Overdeclared }

RECURSIVE le_bytes(_, _)
le_bytes(v, size) ==
  IF size = 0 THEN <<>> ELSE << v % 256 >> \o le_bytes(v \div 256, size - 1)

\* v in `size` bytes: most significant first for endianess 0.
encode(v, size, endianess) ==
  IF endianess = 0 THEN Reverse(le_bytes(v, size)) ELSE le_bytes(v, size)

RECURSIVE flatten(_)
flatten(q) == IF q = <<>> THEN <<>> ELSE q[1] \o flatten(Tail(q))

\* A string with its length prefix and the byte that ends it; the empty
\* string is the prefix 0 alone.
ended_bytes(t, last, h) ==
  IF t = <<>> THEN encode(0, h.sizeof_size_t, h.endianess)
  ELSE encode(Len(t) + 1, h.sizeof_size_t, h.endianess) \o t \o <<last>>

\* A string with its length prefix and trailing NUL.
string_bytes(t, h) == ended_bytes(t, 0, h)

int_bytes(v, h) == encode(v, h.sizeof_int, h.endianess)

\* The count prefix of a table of f.
count_bytes(f, which, held, h) ==
  int_bytes(Len(held) + (IF f.over = which THEN 1 ELSE 0), h)

RECURSIVE function_bytes(_, _)
function_bytes(f, h) ==
  ended_bytes(f.source, f.nul, h) \o int_bytes(f.line, h)
    \o int_bytes(f.param_count, h) \o << f.is_vararg >>
    \o int_bytes(f.max_stack_size, h)
    \o count_bytes(f, "locals", f.locals, h)
    \o flatten([k \in 1 .. Len(f.locals) |->
                  string_bytes(f.locals[k].name, h)
                    \o int_bytes(f.locals[k].start, h)
                    \o int_bytes(f.locals[k].end, h)])
    \o count_bytes(f, "lines", f.lines, h)
    \o flatten([k \in 1 .. Len(f.lines) |-> int_bytes(f.lines[k], h)])
    \o count_bytes(f, "strings", f.strings, h)
    \o flatten([k \in 1 .. Len(f.strings) |-> string_bytes(f.strings[k], h)])
    \o count_bytes(f, "numbers", f.numbers, h)
    \o flatten([k \in 1 .. Len(f.numbers) |->
                  encode(f.numbers[k], h.sizeof_number, h.endianess)])
    \o count_bytes(f, "functions", f.functions, h)
    \o flatten([k \in 1 .. Len(f.functions) |-> function_bytes(f.functions[k], h)])
    \o count_bytes(f, "code", f.code, h)
    \o flatten([k \in 1 .. Len(f.code) |->
                  encode(f.code[k], h.sizeof_instruction, h.endianess)])

\* The five fixed bytes of a Lua 4.0 chunk, and chunks that differ from
\* them in one place.
Magic == << 27, 76, 117, 97, 64 >>
Magics == { Magic, << 28, 76, 117, 97, 64 >>, << 27, 76, 117, 98, 64 >>,
            << 27, 108, 117, 97, 64 >>, << 27, 76, 117, 97, 65 >> }

header_bytes(h) ==
  Magic \o << h.endianess, h.sizeof_int, h.sizeof_size_t,
     h.sizeof_instruction, h.size_instruction, h.size_op, h.size_b,
     h.sizeof_number >> \o [k \in 1 .. h.sizeof_number |-> 0]

\* Most bytes missing from the end of a chunk.
MaxCut == 1

\* A header every reader has an arm for.
Plain ==
  { h \in ChunkHeaders :
      /\ h.endianess \in {0, 1}
      /\ h.sizeof_int \in {2, 4}
      /\ h.sizeof_size_t = 2
      /\ h.sizeof_instruction = 2
      /\ h.sizeof_number = 4 }

\* A header every reader but that of instructions has an arm for.
Narrow ==
  { h \in ChunkHeaders :
      /\ h.endianess \in {0, 1}
      /\ h.sizeof_int = 2
      /\ h.sizeof_size_t = 2
      /\ h.sizeof_instruction = 1
      /\ h.sizeof_number = 4 }

\* A header every reader has an arm for, with an opcode width of 70 and
\* of 64 bits.
Shifted ==
  { [h EXCEPT !.size_instruction = w.size_instruction, !.size_op = w.size_op] :
      h \in Plain, w \in {WideOp, WordOp} }

\* Functions whose source name is not ASCII: "e" with an acute accent, a
\* first byte of two without its second, and the accented "e" ending where
\* the NUL is expected.
Named ==
  { [Leaf(<< MkU(End, 0).instruction >>, 0) EXCEPT !.source = << 195, 169 >>],
    [Leaf(<< MkU(End, 0).instruction >>, 0) EXCEPT !.source = << 97, 195 >>],
    [Leaf(<< MkU(End, 0).instruction >>, 0) EXCEPT !.source = << 97, 195 >>,
                                                    !.nul = 169] }

\* A chunk file: the fixed bytes, the header, the top-level function, the
\* number of bytes missing from its end and the bytes that follow it.
File(magic, h, f, cut, trailing) ==
  [magic |-> magic, header |-> h, function |-> f, cut |-> cut,
   trailing |-> trailing]

Files ==
  { File(Magic, h, f, 0, <<>>) : h \in ChunkHeaders, f \in Prototypes }
  \cup { File(Magic, h, f, 0, <<>>) : h \in Plain, f \in Overdeclared }
  \cup { File(Magic, h, Leaf(words, 0), cut, <<>>) :
           h \in Plain, words \in CodeShapes, cut \in 1 .. MaxCut }
  \cup { File(Magic, h, Leaf(words, 0), 0, <<0>>) : h \in Plain, words \in CodeShapes }
  \cup { File(magic, h, Leaf(<< MkU(End, 0).instruction >>, 0), 0, <<>>) :
           magic \in Magics, h \in ChunkHeaders }
  \cup { File(Magic, h, Leaf(words, 0), cut, <<>>) :
           h \in Narrow, words \in CodeShapes, cut \in 1 .. MaxCut }
  \cup { File(Magic, h, f, 0, <<>>) : h \in Plain, f \in Named }
  \cup { File(Magic, h, f, 0, <<>>) :
           h \in Shifted, f \in Prototypes \cup Overdeclared }
  \cup { File(Magic, h, f, 0, <<>>) :
           h \in Plain \cup Shifted, f \in OverdeclaredOuter }
  \cup { File(Magic, h, Leaf(words, 0), cut, <<>>) :
           h \in Shifted, words \in CodeShapes, cut \in 1 .. MaxCut }
  \cup { File(Magic, h, Leaf(words, 0), 0, <<0>>) :
           h \in Shifted, words \in CodeShapes }

\* The bytes of a chunk file.
file_bytes(c) ==
  LET whole == c.magic
                 \o SubSeq(header_bytes(c.header), Len(Magic) + 1,
                           Len(header_bytes(c.header)))
                 \o function_bytes(c.function, c.header)
  IN SubSeq(whole, 1, Len(whole) - c.cut) \o c.trailing

Chunks == { file_bytes(c) : c \in Files }

\* main, line 723: the chunk is parsed, by a build with or without
\* overflow checks; an error ends main, a panic ends the program.
ParseChunk ==
  /\ status = "parse"
  /\ \E checked \in BOOLEAN : parsed' = lua(input, checked)
  /\ status' = CASE parsed'.st = "Ok" -> "parsed"
                 [] parsed'.st = "Err" -> "error"
                 [] parsed'.st = "Panic" -> "panic"
  /\ failure' = parsed'.why
  /\ UNCHANGED <<chunk, input, instructions, function_constants, frames, nodes, output>>

InitParse ==
  /\ chunk \in Files
  /\ input = file_bytes(chunk)
  /\ parsed = NotParsed
  /\ instructions = <<>>
  /\ function_constants \in ConstantPools
  /\ frames = <<>>
  /\ nodes = <<>>
  /\ output = <<>>
  /\ status = "parse"
  /\ failure = ""

NextParse == ParseChunk

SpecParse == InitParse /\ [][NextParse]_vars

(***************************************************************************)
(* Properties.                                                             *)
(***************************************************************************)
\* Node::instruction_count
RECURSIVE instruction_count(_)
instruction_count(node) ==
  LET counts == [k \in 1 .. Len(node.children) |->
                   instruction_count(node.children[k])]
      sum[k \in 0 .. Len(counts)] == IF k = 0 THEN 0 ELSE sum[k - 1] + counts[k]
  IN sum[Len(counts)] + 1

\* A node and all the nodes below it.
RECURSIVE Subtree(_)
Subtree(node) ==
  {node} \cup UNION { Subtree(node.children[k]) : k \in 1 .. Len(node.children) }

Range(q) == { q[k] : k \in 1 .. Len(q) }

\* Every node to_nodes has built so far and not yet lost to a panic.
FiledNodes ==
  UNION { Subtree(n) :
          n \in Range(nodes) \cup
                UNION { Range(frames[d].unused) \cup Range(frames[d].terminated)
                        \cup Range(frames[d].children) : d \in 1 .. Len(frames) } }

\* The children that were popped off `unused` push a value; the nodes of a
\* jump body come from `terminated` and push none.
Operands(node) == SelectSeq(node.children, LAMBDA c : push_count(c.instruction) # 0)
Body(node) == SelectSeq(node.children, LAMBDA c : push_count(c.instruction) = 0)

SumOver(q, F(_)) ==
  LET sum[k \in 0 .. Len(q)] == IF k = 0 THEN 0 ELSE sum[k - 1] + F(q[k])
  IN sum[Len(q)]

PushOf(node) == push_count(node.instruction)

ScenarioA == << MkS(PushInt, 5), MkS(AddInt, 3), MkU(Return, 1) >>
ScenarioB == << MkU(GetGlobal, 0), MkU(PushString, 1), MkAB(Call, 1, 0) >>
ScenarioC == << MkS(PushInt, 5), MkS(PushInt, 3), MkS(JumpEqual, 2),
                MkU(Return, 0), MkU(End, 0) >>

\* C1: Scenario B, [GetGlobal("print"), PushString("hi"), Call] with Call
\* operands A = 1 and B = 0, is built without failure and its single
\* statement renders as print("hi").
C1_ScenarioB ==
  instructions = ScenarioB =>
    /\ status # "panic"
    /\ status = "done" => output = << "print(\"hi\")" >>

\* C2: on Scenario A to_nodes returns one Return node whose only child is
\* the AddInt node, whose only child is the PushInt node, and the Return
\* node renders as `return 5 + 3`.
C2_ScenarioA ==
  instructions = ScenarioA =>
    /\ status # "panic"
    /\ status \in {"render", "done"} =>
         /\ nodes = << Node(MkU(Return, 1),
                            << Node(MkS(AddInt, 3),
                                    << Node(MkS(PushInt, 5), <<>>) >>) >>) >>
         /\ process_node(nodes[1], <<>>, function_constants) = Ok("return 5 + 3")
    /\ status = "done" => output = << "return 5 + 3" >>

C2_Witness ==
  instructions = ScenarioA /\ status = "done" /\ Len(output) = 1

\* A positive jump has its operands and at least as many instructions
\* left in the queue as its offset; the offset is one that s() returns in
\* every build.
JumpReady ==
  /\ status = "to_nodes"
  /\ Top.pc = "pop"
  /\ Top.needed = 0
  /\ ~ s_overflows(Top.instruction)
  /\ Expands(Top.instruction)
  /\ s(Top.instruction) <= Len(Top.queue)

\* The next k instructions in program order: the queue holds the
\* remaining instructions last to first.
Following(k) == [j \in 1 .. k |-> Top.queue[Len(Top.queue) + 1 - j]]

\* A recursive call of to_nodes is about to return its forest.
BodyBuilt ==
  /\ status = "to_nodes"
  /\ Len(frames) > 1
  /\ Top.pc = "loop"
  /\ Top.queue = <<>>
  /\ Top.unused = <<>>

C3_Split ==
  JumpReady =>
    LET k == s(Top.instruction)
        caller == frames'[Len(frames)]
    IN /\ status' = "to_nodes"
       /\ Len(frames') = Len(frames) + 1
       /\ frames'[Len(frames')] = Entry(Following(k))
       /\ caller = [Top EXCEPT !.queue = SubSeq(Top.queue, 1, Len(Top.queue) - k),
                               !.pc = "call"]

C3_Append ==
  BodyBuilt =>
    LET caller == frames[Len(frames) - 1] IN
    /\ Len(frames') = Len(frames) - 1
    /\ frames'[Len(frames')] =
         [caller EXCEPT !.children = caller.children \o Top.terminated,
                        !.pc = "build"]

C3_Nested ==
  /\ \A d \in 1 .. Len(frames) :
       frames[d].pc = "call" =>
         \A k \in 1 .. Len(frames[d].children) : PushOf(frames[d].children[k]) # 0
  /\ \A n \in FiledNodes :
       Expands(n.instruction) =>
         /\ n.children = Operands(n) \o Body(n)
         /\ SumOver(Body(n), instruction_count) = s(n.instruction)
  /\ instructions = ScenarioC /\ status \in {"render", "done"} =>
       nodes = << Node(MkS(JumpEqual, 2),
                       << Node(MkS(PushInt, 3), <<>>), Node(MkS(PushInt, 5), <<>>),
                          Node(MkU(Return, 0), <<>>), Node(MkU(End, 0), <<>>) >>) >>

\* C3: a jump with positive offset k that is followed by at least k
\* instructions takes exactly the next k instructions, in program order,
\* out of the queue, to_nodes is run on them, and the forest it returns is
\* appended to the jump's children after the operands; the k instructions
\* are all inside the jump node and none is a sibling of it.
C3_JumpBody ==
  /\ [] C3_Nested
  /\ [][C3_Split]_vars
  /\ [][C3_Append]_vars

C3_Witness ==
  /\ instructions = ScenarioC
  /\ status = "done"
  /\ Len(nodes) = 1
  /\ Len(nodes[1].children) = 4

\* An operand is needed and no producer is pending.
Underflow ==
  /\ status = "to_nodes"
  /\ Top.pc = "pop"
  /\ Top.needed > 0
  /\ Top.unused = <<>>

\* The operands of every built node push at least as many values as the
\* node's instruction pops.
C4_Fed ==
  \A n \in FiledNodes :
    /\ ~ pop_count_panics(n.instruction)
    /\ SumOver(Operands(n), PushOf) >= pop_count(n.instruction)

\* C4: when the pending producers cannot meet an instruction's pop count
\* to_nodes fails, and no built node has fewer operand values than its
\* instruction pops.
C4_StackBalance ==
  /\ [] C4_Fed
  /\ [][Underflow => status' = "panic" /\ failure' = "unused.pop_back"]_vars

C4_Witness ==
  /\ instructions = << MkS(PushInt, 5), MkU(Add, 0) >>
  /\ status = "panic"
  /\ failure = "unused.pop_back"
  /\ Len(Top.children) = 1

\* The instructions of an activation are exhausted.
Exhausted ==
  /\ status = "to_nodes"
  /\ Top.pc = "loop"
  /\ Top.queue = <<>>

\* to_nodes returns in this step, to main or to the expanding caller.
Returns == status = "to_nodes" /\ (status' = "render" \/ Len(frames') < Len(frames))

\* C5: to_nodes returns, to main or to the jump that called it, only with
\* `unused` empty; with an unconsumed producer left at exhaustion it fails.
C5_UnusedEmpty ==
  /\ [][Returns => Exhausted /\ Top.unused = <<>>]_vars
  /\ [][Exhausted /\ Top.unused # <<>> => status' = "panic" /\ failure' = "assert_eq"]_vars

C5_Witness ==
  /\ instructions = << MkS(Jump, 1), MkS(PushInt, 5) >>
  /\ status = "panic"
  /\ failure = "assert_eq"
  /\ Len(frames) = 2

C5_WitnessReturn ==
  /\ status = "to_nodes"
  /\ Len(frames) = 1
  /\ Top.pc = "build"

\* The top-level nodes process_node renders.
Rendered(k) == process_node(nodes[k], <<>>, function_constants)

BackwardJump(i) == is_jump(op(i)) /\ s(i) <= 0

\* C7: process_node fails on a jump node whose signed offset is not
\* positive and emits no text for it.
C7_BackwardJumpFails ==
  status \in {"render", "done"} =>
    \A k \in 1 .. Len(nodes) :
      BackwardJump(nodes[k].instruction) => ~ Rendered(k).ok /\ Len(output) < k

\* The opcodes without an arm in process_node.
Unrendered ==
  { TailCall, Pop, PushUpValue, GetTable, GetIndexed, SetLocal, SetList,
    SetMap, Add, Subtract, Multiply, Divide, Power, Concat, Minus, Not,
    JumpOnTrue, JumpOnFalse, Jump, PushNilJump, ForPrep, ForLoop, LForPrep,
    LForLoop }

\* C8: process_node on a node whose opcode has no defined rendering fails
\* and produces no text, whatever its operand and children.
C8_UnrenderedFails ==
  \A k \in 1 .. Len(nodes) :
    op(nodes[k].instruction) \in Unrendered =>
      /\ ~ Rendered(k).ok
      /\ Len(output) < k
      /\ status # "done"

C8_Witness ==
  /\ status = "panic"
  /\ failure = "process_node"
  /\ op(nodes[1].instruction) = Add
  /\ Len(nodes[1].children) = 2

\* C9: when a top-level node cannot be rendered, the top-level nodes that
\* can be rendered are rendered all the same.
C9_DegradesPerNode ==
  status = "panic" /\ failure = "process_node" =>
    \A k \in 1 .. Len(nodes) : Rendered(k).ok => k <= Len(output)

\* t occurs in text.
Contains(text, t) ==
  \E k \in 1 .. Len(text) - Len(t) + 1 : SubSeq(text, k, k + Len(t) - 1) = t

\* Every instruction of c is a statement without operands, so that
\* to_nodes(c) is one childless node per instruction.
StackNeutral(c) ==
  \A k \in 1 .. Len(c) :
    /\ op_valid(c[k])
    /\ ~ pop_count_panics(c[k])
    /\ pop_count(c[k]) = 0
    /\ push_count(c[k]) = 0
    /\ ~ Expands(c[k])

\* The text main generates for such a function: its statements, joined
\* by line feeds.
StatementsText(c) ==
  join([k \in 1 .. Len(c) |-> process_node(Node(c[k], <<>>), <<>>, function_constants).text],
       "\n")

\* C10: the text of a Closure node has exactly param_count parameters of
\* the nested Function it references and contains that Function's
\* rendered body.
C10_ClosureBody ==
  status \in {"render", "done"} =>
    \A k \in 1 .. Len(nodes) : \A n \in Subtree(nodes[k]) :
      LET i == n.instruction
          f == function_constants.functions[a(i) + 1]
          text == process_node(n, <<>>, function_constants)
          params == [p \in 1 .. f.param_count |-> "local_" \o ToString(p - 1)]
      IN (op(i) = Closure /\ a(i) < Len(function_constants.functions)
            /\ StackNeutral(f.code) /\ text.ok) =>
           /\ SubSeq(text.text, 1, Len("function(" \o join(params, ", ") \o ")"))
                = "function(" \o join(params, ", ") \o ")"
           /\ Contains(text.text, StatementsText(f.code))

\* The readers have an arm for each (size, endianness) pair of the header.
Supported(h) ==
  /\ h.endianess \in {0, 1}
  /\ h.sizeof_int \in {2, 4}
  /\ h.sizeof_size_t \in {2, 4, 8}
  /\ h.sizeof_instruction \in {2, 4, 8}
  /\ h.sizeof_number \in {4, 8}

\* C6: parsing a chunk whose header declares an unsupported (size,
\* endianness) pair for int, size_t, instruction word or number never
\* succeeds: no Function is returned, whatever the function body holds.
C6_UnsupportedRejected ==
  status # "parse" =>
    LET h == header(input) IN
    (h.st = "Ok" /\ ~ Supported(h.val)) => parsed.st # "Ok"

\* The root instructions of a forest, in the order of the forest.
Roots(forest) == [k \in 1 .. Len(forest) |-> forest[k].instruction]

\* q is arr with some of its elements left out: the elements of q are
\* found in arr at increasing indices.
RECURSIVE Embeds(_, _)
Embeds(q, arr) ==
  IF q = <<>> THEN TRUE
  ELSE IF arr = <<>> THEN FALSE
  ELSE IF q[1] = arr[1] THEN Embeds(Tail(q), Tail(arr))
  ELSE Embeds(q, Tail(arr))

\* No instruction occurs twice, so that an instruction names its index.
Distinct(arr) == \A j, k \in 1 .. Len(arr) : arr[j] = arr[k] => j = k
IndexOf(i) == CHOOSE k \in 1 .. Len(instructions) : instructions[k] = i

\* The roots of a forest are at increasing indices of the input array.
Forward(forest) ==
  /\ Embeds(Roots(forest), instructions)
  /\ Distinct(instructions) =>
       \A j, k \in 1 .. Len(forest) :
         j < k => IndexOf(forest[j].instruction) < IndexOf(forest[k].instruction)

\* C11: the forest to_nodes returns, and `terminated` of every activation
\* while it is collected, lists its top-level nodes in forward program
\* order: of two top-level nodes the one whose root instruction has the
\* smaller index in the input array comes first.
C11_ForwardOrder ==
  /\ status \in {"render", "done"} => Forward(nodes)
  /\ \A d \in 1 .. Len(frames) : Forward(frames[d].terminated)

C11_Witness ==
  /\ instructions = << MkS(PushInt, 5), MkU(SetGlobal, 0), MkU(End, 0) >>
  /\ status = "done"
  /\ nodes = << Node(MkU(SetGlobal, 0), << Node(MkS(PushInt, 5), <<>>) >>),
                Node(MkU(End, 0), <<>>) >>

\* A parsed function and the functions nested in it.
RECURSIVE Functions(_)
Functions(f) ==
  {f} \cup UNION { Functions(f.constants.functions[k]) :
                     k \in 1 .. Len(f.constants.functions) }

\* A function of a chunk file and the functions nested in it.
RECURSIVE Described(_)
Described(f) ==
  {f} \cup UNION { Described(f.functions[k]) : k \in 1 .. Len(f.functions) }

\* A code array that is not empty and whose last instruction decodes to End.
EndsInEnd(array) ==
  /\ array # <<>>
  /\ op_valid(Last(array))
  /\ op(Last(array)) = End

\* The chunk file is a header and one function, with the counts of what it
\* holds, nothing missing.
Whole(c) ==
  /\ c.magic = Magic
  /\ c.cut = 0
  /\ c.function.over = "none"

\* The instruction words of a function of a chunk file, as instructions.
Words(f, h) == [k \in 1 .. Len(f.code) |-> Instruction(f.code[k], h)]

\* C12: parsing succeeds only if the code array of the function and of
\* every function nested in it is not empty and ends in an instruction
\* that decodes to End; on any other code array, a declared count of zero
\* included, the parse panics and produces no Function.  The panic is that
\* of the index, of op() or of the assertion, or an arithmetic overflow:
\* that of code.len() - 1 for an empty code, or that of the shift in op()
\* under an opcode width of 64 or more, and no other.
C12_CodeEndsInEnd ==
  /\ status = "parsed" =>
       /\ \A f \in Functions(parsed.val.function) : EndsInEnd(f.code)
       /\ \A f \in Described(chunk.function) : EndsInEnd(Words(f, chunk.header))
  /\ ( /\ status # "parse"
       /\ Whole(chunk)
       /\ Supported(chunk.header)
       /\ \E f \in Described(chunk.function) : ~ EndsInEnd(Words(f, chunk.header)) ) =>
       /\ status = "panic"
       /\ failure \in {"index", "expect", "assert", "overflow"}
       /\ parsed.val = <<>>
  /\ (status = "panic" /\ failure = "overflow") =>
       /\ \/ chunk.header.size_op >= 64
          \/ \E f \in Described(chunk.function) : f.code = <<>>
       /\ parsed.val = <<>>

C12_Witness ==
  /\ status = "panic"
  /\ failure = "assert"
  /\ Supported(chunk.header)
  /\ Whole(chunk)
  /\ EndsInEnd(Words(chunk.function, chunk.header))
  /\ Len(chunk.function.functions) = 1
  /\ chunk.function.functions[1].code = << MkU(Return, 0).instruction >>

\* Under an opcode width of 70 a function whose code ends in Return was
\* refused by the shift of op() in the assertion.
C12_WitnessOverflow ==
  /\ status = "panic"
  /\ failure = "overflow"
  /\ chunk.header.size_op = 70
  /\ Whole(chunk)
  /\ chunk.function.functions = <<>>
  /\ chunk.function.code = << MkU(Return, 0).instruction >>

\* The tables of a parsed function, by name.
Lists(f) ==
  [locals |-> f.locals, lines |-> f.lines, strings |-> f.constants.strings,
   numbers |-> f.constants.numbers, functions |-> f.constants.functions,
   code |-> f.code]

\* The count prefix a chunk file gives the table of a function.
Declared(f, which) == Len(f[which]) + (IF f.over = which THEN 1 ELSE 0)

\* Every table of the parsed function p, and of the functions nested in
\* it, has the length the chunk file declares for it.
RECURSIVE AsDeclared(_, _)
AsDeclared(p, f) ==
  /\ \A which \in Tables : Len(Lists(p)[which]) = Declared(f, which)
  /\ \A k \in 1 .. Len(f.functions) :
       AsDeclared(p.constants.functions[k], f.functions[k])

\* C13: in a parsed function the locals, the lines, the strings, numbers
\* and functions of the constants and the code hold exactly as many
\* elements as their count prefix declares, nested functions included; a
\* chunk that ends before the declared elements do, or one of whose
\* tables declares an element more than it holds, is not parsed: the parse
\* fails, with an error where every reader has an arm for the header's
\* encoding and the opcode width is below 64, and no shorter list is
\* returned.
C13_DeclaredCounts ==
  /\ (status = "parsed" /\ chunk.function.over = "none") =>
       AsDeclared(parsed.val.function, chunk.function)
  /\ ( /\ status # "parse"
       /\ chunk.cut > 0 \/ chunk.function.over # "none" ) =>
       /\ status \in {"error", "panic"}
       /\ status = "panic" =>
            \/ failure = "unimplemented" /\ chunk.header \notin Plain \cup Shifted
            \/ failure = "overflow" /\ chunk.header \in Shifted
       /\ parsed.val = <<>>

C13_Witness ==
  /\ status = "parsed"
  /\ Len(chunk.function.functions) = 1
  /\ Len(parsed.val.function.constants.functions) = 1
  /\ Len(parsed.val.function.constants.numbers) = 1
  /\ Len(parsed.val.function.constants.strings) = 2
  /\ Len(parsed.val.function.locals) = 1
  /\ Len(parsed.val.function.code) = 2

\* Under an opcode width of 70 a chunk that declares one instruction more
\* than it holds ended in the shift of op() on the code of its nested
\* function.
C13_WitnessOverflow ==
  /\ status = "panic"
  /\ failure = "overflow"
  /\ chunk.header.size_op = 70
  /\ chunk.function.over = "code"
  /\ Len(chunk.function.functions) = 1
  /\ parsed.val = <<>>

\* A chunk that declares one instruction more than it holds is not parsed.
C13_WitnessShort ==
  /\ status = "error"
  /\ chunk.function.over = "code"
  /\ parsed.val = <<>>

\* The header and the top-level function are read and `left` follows them.
ReadWith(left, checked) ==
  /\ header(input).st = "Ok"
  /\ function(header(input).rest, header(input).val, checked).st = "Ok"
  /\ function(header(input).rest, header(input).val, checked).rest = left

\* C14: lua does not succeed with input left: a parsed chunk was consumed
\* to its last byte, and a chunk whose header and top-level function are
\* read with a byte following them is not parsed; the program panics.
\* Where a build with overflow checks does not read the function, for
\* the shift of op() under an opcode width of 64 or more, it panics there.
C14_NoTrailingBytes ==
  /\ status = "parsed" =>
       /\ parsed.rest = <<>>
       /\ \E checked \in BOOLEAN : ReadWith(<<>>, checked)
       /\ chunk.trailing = <<>>
  /\ ( /\ status # "parse"
       /\ \E left \in {chunk.trailing} \ {<<>>}, checked \in BOOLEAN :
            ReadWith(left, checked) ) =>
       /\ status = "panic"
       /\ \/ failure = "assert_eq"
          \/ /\ failure = "overflow"
             /\ chunk.header.size_op >= 64
             /\ ~ ReadWith(chunk.trailing, TRUE)
       /\ parsed.val = <<>>

C14_Witness ==
  /\ status = "panic"
  /\ failure = "assert_eq"
  /\ chunk.trailing = <<0>>
  /\ ReadWith(<<0>>, TRUE)
  /\ chunk.function.code = << MkU(Return, 0).instruction, MkU(End, 0).instruction >>

\* The first five bytes of the input.
Fixed == SubSeq(input, 1, Len(Magic))

\* C15: header yields a Header only for an input that starts with 0x1B,
\* "Lua", 0x40.  For any other five bytes it returns an error, and the
\* parse ends in that error whatever the fields after them hold: no size
\* field is looked at, so none is found unsupported.
C15_FixedBytes ==
  /\ header(input).st = "Ok" =>
       /\ Fixed = Magic
       /\ header(input).val.id_chunk = 27
       /\ header(input).val.signature = << 76, 117, 97 >>
       /\ header(input).val.version = 64
  /\ (Len(input) >= Len(Magic) /\ Fixed # Magic) =>
       /\ header(input) = Error
       /\ status # "parse" =>
            /\ status = "error"
            /\ parsed = Error
  /\ status = "parsed" => Fixed = Magic /\ chunk.magic = Magic

C15_Witness ==
  /\ status = "error"
  /\ parsed = Error
  /\ chunk.magic = << 27, 76, 117, 97, 65 >>
  /\ Fixed = chunk.magic
  /\ ~ Supported(chunk.header)

\* The value of the `bits` lowest bits of a word, bit by bit.
RECURSIVE LowBits(_, _)
LowBits(word, bits) ==
  IF bits = 0 THEN 0
  ELSE (word % 2) + 2 * LowBits(word \div 2, bits - 1)

\* The low size_op bits of the instruction word name one of the 49 opcodes.
Names(i) == LowBits(i.instruction, i.size_op) \in End .. Closure

\* to_nodes is about to take an instruction.
Taking ==
  /\ status = "to_nodes"
  /\ Top.pc = "loop"
  /\ Top.queue # <<>>

\* C16 as stated, for every opcode width: op returns the opcode whose
\* ordinal is the value of the low size_op bits of the instruction word
\* when that is the ordinal of one of the 49 opcodes and panics with the
\* invalid-opcode message otherwise; taking an instruction, to_nodes
\* panics with that message exactly when the low size_op bits name no
\* opcode.
C16_AnyWidth ==
  /\ [] (\A k \in 1 .. Len(instructions) :
           /\ op_valid(instructions[k]) <=> Names(instructions[k])
           /\ Names(instructions[k]) =>
                op(instructions[k])
                  = LowBits(instructions[k].instruction, instructions[k].size_op))
  /\ [][ Taking =>
           IF Names(Last(Top.queue))
           THEN ~ (status' = "panic" /\ failure' = "op")
           ELSE status' = "panic" /\ failure' = "op" ]_vars

\* The instruction with the opcode width a shift by size_op takes in a
\* build without overflow checks: size_op itself below 64, the bits of a
\* usize, and size_op modulo 64 from there on.
Wrapped(i) ==
  [i EXCEPT !.size_op = IF i.size_op < 64 THEN i.size_op ELSE i.size_op % 64]

\* Every word of the function and of its nested functions names an opcode
\* in the bits op() decodes.
RECURSIVE AllDecoded(_, _)
AllDecoded(words, consts) ==
  /\ \A k \in 1 .. Len(words) : Names(Wrapped(words[k]))
  /\ \A k \in 1 .. Len(consts.functions) :
       AllDecoded(consts.functions[k].code, consts.functions[k].constants)

\* C16: under an opcode width below 64, Instruction::op returns the opcode
\* whose ordinal is the value of the low size_op bits of the instruction
\* word when that is the ordinal of one of the 49 opcodes, and panics with
\* the invalid-opcode message otherwise.  Under an opcode width of 64 or
\* more the shift of op() overflows: a build with overflow checks panics
\* there, and any other decodes the low (size_op mod 64) bits in the same
\* way.  Where main formats the function, the invalid-opcode panic is
\* raised only for functions that hold a word whose decoded bits name no
\* opcode, before to_nodes is called; where it does not, to_nodes is
\* called and raises it on taking such a word; no forest holds such a
\* word, and an instruction whose decoded bits name an opcode is never
\* refused for its opcode and is handled as that opcode.  The overflow
\* panic on taking an instruction needs widths of 64 or more.
C16_OpOfLowBits ==
  /\ [] (\A k \in 1 .. Len(instructions) :
           /\ op_valid(instructions[k]) <=> Names(Wrapped(instructions[k]))
           /\ instructions[k].size_op < 64 =>
                (op_valid(instructions[k]) <=> Names(instructions[k]))
           /\ Names(Wrapped(instructions[k])) =>
                op(instructions[k])
                  = LowBits(instructions[k].instruction,
                            Wrapped(instructions[k]).size_op))
  /\ [] (status \in {"render", "done"} =>
           \A k \in 1 .. Len(instructions) : Names(Wrapped(instructions[k])))
  /\ [][ status = "parsed" =>
           /\ (status' = "panic" /\ failure' = "op") =>
                ~ AllDecoded(instructions, function_constants) /\ frames' = frames
           /\ status' = "to_nodes" \/ (status' = "panic" /\ frames' = frames)
           /\ (AllDecoded(instructions, function_constants)
                 /\ \A k \in 1 .. Len(instructions) :
                      fmt(instructions[k], TRUE) = "") =>
                status' = "to_nodes" /\ failure' = "" ]_vars
  /\ [][ Taking =>
           /\ (status' = "panic" /\ failure' = "overflow") =>
                \/ Last(Top.queue).size_op >= 64
                \/ Last(Top.queue).size_op + Last(Top.queue).size_b >= 64
                \/ Last(Top.queue).size_b >= 64
           /\ IF Names(Wrapped(Last(Top.queue)))
              THEN /\ op(Last(Top.queue))
                        = LowBits(Last(Top.queue).instruction,
                                  Wrapped(Last(Top.queue)).size_op)
                   /\ ~ (status' = "panic" /\ failure' = "op")
                   /\ status' = "to_nodes" =>
                        /\ Top'.instruction = Last(Top.queue)
                        /\ op(Top'.instruction) \in OpCode
                        /\ Top'.needed = pop_count(Last(Top.queue))
              ELSE /\ status' = "panic"
                   /\ failure' = "op" \/ (failure' = "overflow"
                                            /\ Last(Top.queue).size_op >= 64)
                   /\ frames' = frames ]_vars

\* An instruction with operand bits set above a valid opcode was taken.
C16_Witness ==
  /\ status = "to_nodes"
  /\ Top.pc = "pop"
  /\ Top.instruction = MkS(AddInt, 3)
  /\ Top.instruction.instruction > Closure
  /\ op(Top.instruction) = AddInt

\* Under an opcode width of 70 the word 70 was taken as PushInt, the
\* opcode of its low six bits; its low 70 bits name no opcode.
C16_WitnessWrapped ==
  /\ status = "to_nodes"
  /\ Top.pc = "pop"
  /\ Top.instruction = Instruction(64 + PushInt, WideOp)
  /\ op(Top.instruction) = PushInt
  /\ ~ Names(Top.instruction)

\* Under an opcode width of 70 taking that word ended the program in the
\* overflow of the shift.
C16_WitnessOverflow ==
  /\ status = "panic"
  /\ failure = "overflow"
  /\ Len(frames) = 1
  /\ Last(Top.queue) = Instruction(64 + PushInt, WideOp)

\* A function with a word whose low bits name no opcode ended the program
\* before to_nodes was called.
C16_WitnessInvalid ==
  /\ status = "panic"
  /\ failure = "op"
  /\ frames = <<>>
  /\ Len(instructions) >= 2
  /\ instructions[2] = MkU(63, 2)

\* The number of instructions in the queues of the activations.
RECURSIVE Queued(_)
Queued(fs) == IF fs = <<>> THEN 0 ELSE Len(Last(fs).queue) + Queued(Front(fs))

\* The index, in the array main handed to to_nodes, of the first
\* instruction that no activation has taken.
Position == Len(instructions) - Queued(frames) + 1

\* The activation on top has been through an iteration of its main loop:
\* the node that iteration built is in `unused`, in `terminated`, or a
\* child of one that is.
Iterated == Top.unused # <<>> \/ Top.terminated # <<>>

\* An iteration of the main loop takes its instruction.
Takes ==
  /\ Taking
  /\ status' = "to_nodes"

\* C17 as claimed: to_nodes consumes the instructions from the last to the
\* first; the instruction an iteration takes has a smaller index in the
\* array than the instruction the iteration before it took in the same
\* call.
C17_LastToFirst ==
  [][ (Takes /\ Iterated /\ Distinct(instructions)) =>
        IndexOf(Top'.instruction) < IndexOf(Top.instruction) ]_vars

\* C17 as the code has it: to_nodes consumes the instructions from the
\* first to the last; an iteration takes the instruction at the first
\* index no iteration of any call has taken, which is greater than the
\* index of every instruction taken before it in the same call.
C17_FirstToLast ==
  [][ /\ Takes =>
           /\ Top'.instruction = instructions[Position]
           /\ Position' = Position + 1
           /\ (Iterated /\ Distinct(instructions)) =>
                IndexOf(Top'.instruction) > IndexOf(Top.instruction)
      /\ (status = "to_nodes" /\ status' = "to_nodes") =>
           Position' >= Position ]_vars

\* The second iteration of a call has taken the second instruction.
C17_Witness ==
  /\ status = "to_nodes"
  /\ instructions = << MkS(PushInt, 5), MkU(SetGlobal, 0), MkU(End, 0) >>
  /\ Top.pc = "pop"
  /\ Top.instruction = MkU(SetGlobal, 0)
  /\ Roots(Top.unused) = << MkS(PushInt, 5) >>
  /\ Position = 3

\* The values the children popped so far push.
Gathered(f) == SumOver(f.children, PushOf)

\* C18: for each instruction the operand loop pops nodes off the back of
\* `unused` into the children until what they push sums to at least the
\* pop count of the instruction, then stops, also when the last node
\* popped pushes more than was still needed: the loop goes on exactly
\* while the sum is short of the pop count, it has not popped a node after
\* the sum was reached, and it fails only when `unused` runs out first.
C18_OperandLoop ==
  /\ (status = "to_nodes" /\ Top.pc = "pop") =>
       /\ Top.needed = 0 <=> Gathered(Top) >= pop_count(Top.instruction)
       /\ Top.children # <<>> =>
            SumOver(Front(Top.children), PushOf) < pop_count(Top.instruction)
  /\ (status = "panic" /\ failure \in {"needed", "unused.pop_back"}) =>
       /\ failure = "unused.pop_back"
       /\ Gathered(Top) < pop_count(Top.instruction)

\* The opcodes from JumpNotEqual to Jump in the order of the enum.
JumpOpcodes ==
  { JumpNotEqual, JumpEqual, JumpLessThan, JumpLessThanEqual, JumpGreaterThan,
    JumpGreaterThanEqual, JumpIfTrue, JumpIfFalse, JumpOnTrue, JumpOnFalse,
    Jump }

\* The operands of the instruction are gathered and it is a jump over the
\* instructions that follow it.
JumpsAhead ==
  /\ Top.needed = 0
  /\ op(Top.instruction) \in JumpOpcodes
  /\ s(Top.instruction) > 0

\* The nodes the top activation holds, pending or filed.
Held(f) == { f.unused[k] : k \in 1 .. Len(f.unused) }
             \cup { f.terminated[k] : k \in 1 .. Len(f.terminated) }

\* C19: between taking an instruction and filing its node, instructions
\* leave the queue only for a jump opcode (JumpNotEqual to Jump) with an
\* offset above zero, which moves the next s() instructions to a recursive
\* call.  For a jump with an offset of zero or less and for every other
\* opcode, the loop opcodes and PushInt or AddInt with positive operands
\* included, the queue stays as it is, no call is made, and the node is
\* filed with the children the operand loop gathered, each of which
\* pushes a value.
C19_OnlyPositiveJumps ==
  [][ (status = "to_nodes" /\ Top.pc = "pop" /\ status' = "to_nodes") =>
        IF JumpsAhead
        THEN /\ Len(frames') = Len(frames) + 1
             /\ frames'[Len(frames)].queue
                  = SubSeq(Top.queue, 1, Len(Top.queue) - s(Top.instruction))
             /\ Len(Top'.queue) = s(Top.instruction)
        ELSE /\ Len(frames') = Len(frames)
             /\ Top'.queue = Top.queue
             /\ Top'.pc = "loop" =>
                  /\ Node(Top.instruction, Top.children) \in Held(Top')
                  /\ \A k \in 1 .. Len(Top.children) :
                       PushOf(Top.children[k]) >= 1 ]_vars

\* ForLoop with offset 1 was filed with its three operands and the two
\* instructions after it are still in the queue.
C19_Witness ==
  /\ status = "to_nodes"
  /\ Top.pc = "loop"
  /\ Top.instruction = MkS(ForLoop, 1)
  /\ s(Top.instruction) = 1
  /\ Top.terminated = << Node(MkS(ForPrep, 2), <<>>),
                         Node(MkS(ForLoop, 1),
                              << Node(MkS(PushInt, 3), <<>>),
                                 Node(MkS(PushInt, 2), <<>>),
                                 Node(MkS(PushInt, 1), <<>>) >>) >>
  /\ Top.queue = << MkU(End, 0), MkS(PushNilJump, 1) >>

\* Every node of `unused` pushes a value and no node of `terminated` does.
Sorted(f) ==
  /\ \A k \in 1 .. Len(f.unused) : push_count(f.unused[k].instruction) >= 1
  /\ \A k \in 1 .. Len(f.terminated) : push_count(f.terminated[k].instruction) = 0

\* The top activation files the node of its instruction.
Files_node ==
  /\ status = "to_nodes"
  /\ status' = "to_nodes"
  /\ Len(frames') = Len(frames)
  /\ Top.pc \in {"pop", "build"}
  /\ Top'.pc = "loop"

\* C20: at every step of to_nodes, in every activation, every node in
\* `unused` has a push count of at least 1 and every node in `terminated`
\* a push count of 0; a built node is appended to `unused`, and
\* `terminated` left alone, exactly when its push count is not zero, and
\* appended to `terminated`, `unused` left alone, otherwise.
C20_FiledByPushCount ==
  /\ [] (\A d \in 1 .. Len(frames) : Sorted(frames[d]))
  /\ [] (\A k \in 1 .. Len(nodes) : push_count(nodes[k].instruction) = 0)
  /\ [][ Files_node =>
           LET node == Node(Top.instruction, Top.children) IN
           IF push_count(Top.instruction) # 0
           THEN /\ Top'.unused = Append(Top.unused, node)
                /\ Top'.terminated = Top.terminated
           ELSE /\ Top'.terminated = Append(Top.terminated, node)
                /\ Top'.unused = Top.unused ]_vars

\* A producer is pending and a statement is filed in the same activation.
C20_Witness ==
  /\ status = "to_nodes"
  /\ Top.pc = "loop"
  /\ Roots(Top.terminated) = << MkU(SetGlobal, 0) >>
  /\ Roots(Top.unused) = << MkU(GetGlobal, 0) >>
  /\ push_count(MkU(GetGlobal, 0)) = 1
  /\ push_count(MkU(SetGlobal, 0)) = 0

\* The values an instruction pops, by the rules of its opcode.
PopRule(i) ==
  CASE op(i) = Call -> a(i)
    [] op(i) \in {Return, Pop, Concat} -> u(i)
    [] op(i) \in {SetTable, Closure} -> b(i)
    [] OTHER -> op_pop_count(op(i)).n

\* The values an instruction pushes, by the rules of its opcode.
PushRule(i) ==
  CASE op(i) = Call -> b(i)
    [] op(i) = PushNil -> u(i)
    [] OTHER -> op_push_count(op(i)).n

\* The opcodes whose table entry is not Delta.
Fixed_pop == { o \in OpCode : op_pop_count(o).kind \in {"Constant", "None"} }
Fixed_push == { o \in OpCode : op_push_count(o).kind \in {"Constant", "None"} }

\* C21: the stack effect of an instruction is resolved from its own
\* operands: Call pops A and pushes B values, Return, Pop and Concat pop u,
\* SetTable and Closure pop B, PushNil pushes u, and an opcode whose table
\* entry is Constant(n) or None pops or pushes n or 0 whatever its
\* operand.  The operand loop of to_nodes starts from that pop count and
\* the node is pending exactly when that push count is not zero.
C21_DeltaRules ==
  /\ [] (\A k \in 1 .. Len(instructions) :
           LET i == instructions[k] IN
           op_valid(i) =>
             /\ push_count(i) = PushRule(i)
             /\ ~ pop_count_panics(i) => pop_count(i) = PopRule(i)
             /\ op(i) \in Fixed_pop =>
                  pop_count(i) = pop_count(Instruction(op(i), i))
             /\ op(i) \in Fixed_push =>
                  push_count(i) = push_count(Instruction(op(i), i)))
  /\ [][ (Taking /\ status' = "to_nodes") =>
           Top'.needed = PopRule(Last(Top.queue)) ]_vars
  /\ [][ Files_node =>
           Len(Top'.unused) = Len(Top.unused)
             + (IF PushRule(Top.instruction) # 0 THEN 1 ELSE 0) ]_vars

\* A Call with A = 1 and B = 0 was taken and one value is needed.
C21_Witness ==
  /\ status = "to_nodes"
  /\ Top.pc = "pop"
  /\ Top.instruction = MkAB(Call, 1, 0)
  /\ Top.needed = 1
  /\ push_count(Top.instruction) = 0

\* The opcodes Instruction::pop_count has no rule for.
Unresolved == {SetList, SetMap, TailCall}

\* C22: to_nodes gives SetList, SetMap and TailCall no stack effect: on
\* an instruction array that holds one of them it returns no forest, the
\* program panics when it takes the instruction, and no node is ever
\* built for it.
C22_NoGuessedEffect ==
  /\ [] ( (\E k \in 1 .. Len(instructions) :
             op_valid(instructions[k]) /\ op(instructions[k]) \in Unresolved) =>
            /\ status \in {"parsed", "to_nodes", "panic"}
            /\ nodes = <<>> )
  /\ [] (\A n \in FiledNodes : op(n.instruction) \notin Unresolved)
  /\ [][ (Taking /\ op_valid(Last(Top.queue))
            /\ op(Last(Top.queue)) \in Unresolved) =>
           /\ status' = "panic"
           /\ failure' = "pop_count"
           /\ frames' = frames ]_vars

\* A SetList in a jump body ended the program.
C22_Witness ==
  /\ status = "panic"
  /\ failure = "pop_count"
  /\ Len(frames) = 2
  /\ Last(Top.queue) = MkAB(SetList, 0, 1)
  /\ instructions[1] = MkS(Jump, 2)

\* The word shifted right by `bits`, one bit at a time.
RECURSIVE Shr(_, _)
Shr(word, bits) == IF bits = 0 THEN word ELSE Shr(word \div 2, bits - 1)

\* 2^(bits - 1) - 1 as a product, the bias of a signed operand of `bits`
\* bits: ((1 << bits) - 1) >> 1.
RECURSIVE Ones(_)
Ones(bits) == IF bits <= 1 THEN 0 ELSE 2 * Ones(bits - 1) + 1

Bias(i) == Ones(i.size_instruction - i.size_op)

\* The word has no bit at or above size_instruction.
Fits(i) == Shr(i.instruction, i.size_instruction) = 0

\* The width of the signed operand, and the most bits of a bias that is
\* computed: one that fits a 32-bit integer.
OperandBits(i) == i.size_instruction - i.size_op
MaxBiasBits == 30

SignedInRange(i) ==
  /\ i.size_op < i.size_instruction
  /\ i.size_op < 64
  /\ OperandBits(i) < 63

\* to_nodes is about to test whether the jump it holds is expanded.
JumpHeld ==
  /\ status = "to_nodes"
  /\ Top.pc = "pop"
  /\ Top.needed = 0
  /\ op(Top.instruction) \in JumpOpcodes

C23_WitnessWrapped ==
  /\ status = "to_nodes"
  /\ Top.pc = "loop"
  /\ Top.instruction = Instruction(64 + Jump, Long)
  /\ u(Top.instruction) = 1
  /\ s(Top.instruction) = 0
  /\ Top.terminated = << Node(Top.instruction, <<>>) >>

\* Under the same widths the test of a Jump ended the program in the
\* overflow of the shift.
C23_WitnessOverflow ==
  /\ status = "panic"
  /\ failure = "overflow"
  /\ frames # <<>>
  /\ Top.pc = "pop"
  /\ Top.instruction = Instruction(64 + Jump, Long)

\* The most bits of a product of powers of two that is computed: one that
\* fits a 32-bit integer.
MaxPowerBits == 30

\* C24 as stated, for every word and all widths: 0 <= b < 2^size_b and
\* u = a * 2^size_b + b, which is to say that a is u shifted right by
\* size_b and b the low size_b bits of u, and the word is (((a << size_b)
\* | b) << size_op) | its opcode bits.  The products are computed where
\* they fit.
C24_AnyWidth ==
  \A k \in 1 .. Len(instructions) :
    LET i == instructions[k] IN
    /\ b(i) >= 0
    /\ a(i) = Shr(u(i), i.size_b)
    /\ b(i) = LowBits(u(i), i.size_b)
    /\ i.size_op + i.size_b <= MaxPowerBits =>
         /\ b(i) < 2 ^ i.size_b
         /\ u(i) = a(i) * (2 ^ i.size_b) + b(i)
         /\ i.instruction
              = (a(i) * (2 ^ i.size_b) + b(i)) * (2 ^ i.size_op)
                  + LowBits(i.instruction, i.size_op)

\* C24: under widths with size_op + size_b below 64, A and B split the
\* bits of the word above the opcode at the width of B: 0 <= b <
\* 2^size_b, u = a * 2^size_b + b, and the word is (((a << size_b) | b)
\* << size_op) | its opcode bits; A is the word shifted right by size_op +
\* size_b and B the low size_b bits of u.  Under widths with size_op +
\* size_b of 64 or more the shift of a() overflows: a build with overflow
\* checks panics, and any other takes the shift amounts modulo 64, A the
\* word shifted right by (size_op + size_b) mod 64 and B the low (size_b
\* mod 64) bits of the word shifted right by size_op mod 64.  A Call pops
\* A and pushes B values, or panics where the arithmetic overflows.
C24_OperandSplit ==
  /\ [] (\A k \in 1 .. Len(instructions) :
           LET i == instructions[k] IN
           /\ i.size_op + i.size_b < 64 =>
                /\ ~ a_overflows(i) /\ ~ b_overflows(i) /\ ~ u_overflows(i)
                /\ a(i) = Shr(i.instruction, i.size_op + i.size_b)
                /\ b(i) = LowBits(Shr(i.instruction, i.size_op), i.size_b)
                /\ a(i) = Shr(u(i), i.size_b)
                /\ b(i) = LowBits(u(i), i.size_b)
                /\ b(i) >= 0
                /\ i.size_op + i.size_b <= MaxPowerBits =>
                     /\ b(i) < 2 ^ i.size_b
                     /\ u(i) = a(i) * (2 ^ i.size_b) + b(i)
                     /\ i.instruction
                          = (a(i) * (2 ^ i.size_b) + b(i)) * (2 ^ i.size_op)
                              + LowBits(i.instruction, i.size_op)
           /\ i.size_op + i.size_b >= 64 =>
                /\ a_overflows(i)
                /\ a(i) = Shr(i.instruction, (i.size_op + i.size_b) % 64)
                /\ b(i) = LowBits(Shr(i.instruction, i.size_op % 64),
                                  i.size_b % 64))
  /\ [][ (Taking /\ op(Last(Top.queue)) = Call) =>
           LET i == Last(Top.queue) IN
           /\ (status' = "panic" /\ failure' = "overflow") =>
                i.size_op + i.size_b >= 64
           /\ i.size_op + i.size_b < 64 => status' = "to_nodes"
           /\ status' = "to_nodes" =>
                /\ Top'.needed
                     = Shr(i.instruction, (i.size_op + i.size_b) % 64)
                /\ push_count(Top'.instruction)
                     = LowBits(Shr(i.instruction, i.size_op % 64),
                               i.size_b % 64) ]_vars

\* A Call with u = 17 under a 4-bit B was taken: A = 1 and B = 1.
C24_Witness ==
  /\ status = "to_nodes"
  /\ Top.pc = "pop"
  /\ Top.instruction.size_b = 4
  /\ op(Top.instruction) = Call
  /\ u(Top.instruction) = 17
  /\ a(Top.instruction) = 1
  /\ b(Top.instruction) = 1
  /\ Top.needed = 1

\* Under widths 16/6/60, a shift by 66, the Call of word 66 was taken with
\* A = 16, the word shifted right by 66 mod 64 = 2; u is 1 and B is 1.
C24_WitnessWrapped ==
  /\ status = "to_nodes"
  /\ Top.pc = "pop"
  /\ Top.instruction = Instruction(64 + Call, WideB)
  /\ u(Top.instruction) = 1
  /\ b(Top.instruction) = 1
  /\ a(Top.instruction) = Shr(64 + Call, 2)
  /\ Top.needed = a(Top.instruction)
  /\ Top.needed > 0

\* Under the same widths taking the Call ended the program in the
\* overflow of the shift.
C24_WitnessOverflow ==
  /\ status = "panic"
  /\ failure = "overflow"
  /\ Len(frames) = 1
  /\ Last(Top.queue) = Instruction(64 + Call, WideB)

\* The comparison jumps and, for each, the comparison that holds when the
\* jump is not taken.
Comparisons ==
  { JumpNotEqual, JumpEqual, JumpLessThan, JumpLessThanEqual,
    JumpGreaterThan, JumpGreaterThanEqual }
Negation ==
  [o \in Comparisons |->
     IF o = JumpNotEqual THEN "=="
     ELSE IF o = JumpEqual THEN "~="
     ELSE IF o = JumpLessThan THEN ">="
     ELSE IF o = JumpLessThanEqual THEN ">"
     ELSE IF o = JumpGreaterThan THEN "<="
     ELSE "<"]

\* The instruction occurs once in the array, so its position is the time
\* it ran.
Once(i) == Cardinality({ k \in 1 .. Len(instructions) : instructions[k] = i }) = 1

\* The text of a node under main's call of process_node.
Text(node) == process_node(node, <<>>, function_constants).text

\* The rendered lines of the nodes, each indented by two spaces after the
\* first.
Indented(body) ==
  join(flat_map_split([k \in 1 .. Len(body) |-> Text(body[k])]), "\n  ")

\* A rendered comparison jump over two single-value operands, each run
\* once.
Compared(k) ==
  /\ k <= Len(output)
  /\ op(nodes[k].instruction) \in Comparisons
  /\ Len(nodes[k].children) >= 2
  /\ \A c \in 1 .. 2 :
       /\ push_count(nodes[k].children[c].instruction) = 1
       /\ Once(nodes[k].children[c].instruction)

\* C25: a comparison-jump node renders as `if (L op R) then ... end`
\* where op is the negation of the jump's comparison, L is the operand
\* pushed first, R the operand pushed second, and the children after the
\* two operands are the indented body.
C25_ComparisonJump ==
  \A k \in 1 .. Len(nodes) :
    Compared(k) =>
      LET node == nodes[k]
          n == Len(node.children)
          x == node.children[1]
          y == node.children[2]
          L == IF IndexOf(x.instruction) < IndexOf(y.instruction) THEN x ELSE y
          R == IF IndexOf(x.instruction) < IndexOf(y.instruction) THEN y ELSE x
      IN output[k]
           = "if (" \o Text(L) \o " " \o Negation[op(node.instruction)] \o " "
               \o Text(R) \o ") then\n  "
               \o Indented(SubSeq(node.children, 3, n)) \o "\nend"

\* 5 was pushed before 3 and JumpGreaterThan jumped over an assignment and
\* a return: the text compares 5 <= 3 and holds the two body lines.
C25_Witness ==
  /\ status = "done"
  /\ Compared(1)
  /\ op(nodes[1].instruction) = JumpGreaterThan
  /\ Len(nodes[1].children) = 4
  /\ output = << "if (5 <= 3) then\n  print = 1\n  return \nend", "" >>

\* The nodes of q in the order their instructions ran, each having run
\* once.
PushOrder(q) ==
  [k \in 1 .. Len(q) |->
     q[CHOOSE j \in 1 .. Len(q) :
         Cardinality({ e \in 1 .. Len(q) :
                         IndexOf(q[e].instruction) < IndexOf(q[j].instruction) })
           = k - 1]]

\* A rendered Call or Return whose operands are single-value producers,
\* each run once.
Listed(k) ==
  /\ k <= Len(output)
  /\ op(nodes[k].instruction) \in { Call, Return }
  /\ \A c \in 1 .. Len(nodes[k].children) :
       /\ push_count(nodes[k].children[c].instruction) = 1
       /\ Once(nodes[k].children[c].instruction)
  /\ op(nodes[k].instruction) = Call => Len(nodes[k].children) >= 1

\* C26: a Call or Return over single-value operands lists them in the
\* order the program pushed them, the argument pushed first first; the
\* callee of a Call is the value pushed before its arguments.
C26_PushOrder ==
  \A k \in 1 .. Len(nodes) :
    Listed(k) =>
      LET pushed == PushOrder(nodes[k].children)
          texts == [c \in 1 .. Len(pushed) |-> Text(pushed[c])]
      IN output[k]
           = IF op(nodes[k].instruction) = Return
             THEN "return " \o join(texts, ", ")
             ELSE texts[1] \o "(" \o join(Tail(texts), ", ") \o ")"

\* The instructions of a node and of the nodes below it, and of a forest.
RECURSIVE InstructionsOf(_)
InstructionsOf(node) ==
  LET below == [k \in 1 .. Len(node.children) |-> InstructionsOf(node.children[k])]
      all[k \in 0 .. Len(below)] == IF k = 0 THEN <<>> ELSE all[k - 1] \o below[k]
  IN << node.instruction >> \o all[Len(below)]
InForest(forest) ==
  LET each == [k \in 1 .. Len(forest) |-> InstructionsOf(forest[k])]
      all[k \in 0 .. Len(each)] == IF k = 0 THEN <<>> ELSE all[k - 1] \o each[k]
  IN all[Len(each)]

\* How often x occurs in q.
Occurs(q, x) == Cardinality({ k \in 1 .. Len(q) : q[k] = x })

\* to_nodes has returned to main.
Returned == status \in {"render", "done"} \/ failure = "process_node"

\* C27: whenever to_nodes returns, every instruction of its input is the
\* instruction of exactly one node of the returned forest, so the sum of
\* instruction_count over the top-level nodes is the length of the input;
\* a recursive call returns as many nodes as the jump moved into it.
C27_Conservation ==
  /\ [] (Returned =>
           /\ SumOver(nodes, instruction_count) = Len(instructions)
           /\ Len(InForest(nodes)) = Len(instructions)
           /\ \A x \in Range(instructions) \cup Range(InForest(nodes)) :
                Occurs(InForest(nodes), x) = Occurs(instructions, x))
  /\ [][ ( /\ status = "to_nodes"
           /\ Len(frames) > 1
           /\ Top.pc = "loop"
           /\ Top.queue = <<>>
           /\ status' = "to_nodes" ) =>
           /\ SumOver(Top.terminated, instruction_count)
                = s(frames[Len(frames) - 1].instruction)
           /\ SumOver(frames'[Len(frames')].children, instruction_count)
                = SumOver(frames[Len(frames) - 1].children, instruction_count)
                    + s(frames[Len(frames) - 1].instruction) ]_vars

\* The seven instructions of Scenario C followed by a statement came back
\* as a comparison jump holding five of them, two in its body, a Return
\* and an End.
C27_Witness ==
  /\ Returned
  /\ Len(instructions) = 7
  /\ Len(nodes) = 3
  /\ op(nodes[1].instruction) = JumpEqual
  /\ instruction_count(nodes[1]) = 5
  /\ instruction_count(nodes[1].children[3]) = 2
  /\ instruction_count(nodes[2]) = 1
  /\ instruction_count(nodes[3]) = 1

\* Some jump of the array has a positive offset larger than the number of
\* instructions after it.
Overruns ==
  \E k \in 1 .. Len(instructions) :
    /\ op_valid(instructions[k])
    /\ is_jump(op(instructions[k]))
    /\ s(instructions[k]) > Len(instructions) - k

\* The activation on top is at a jump whose offset exceeds what is left of
\* its queue.
Overrunning ==
  /\ status = "to_nodes"
  /\ Top.pc = "pop"
  /\ Top.needed = 0
  /\ is_jump(op(Top.instruction))
  /\ s(Top.instruction) > Len(Top.queue)

\* C28: a jump whose positive offset exceeds the number of instructions
\* remaining after it makes to_nodes fail: the body is never cut down to
\* the instructions that are there and no forest is returned.
C28_NoTruncation ==
  /\ [] (Overruns => ~ Returned /\ nodes = <<>> /\ output = <<>>)
  /\ [][ Overrunning =>
           /\ status' = "panic"
           /\ failure' = "split_off"
           /\ frames' = frames
           /\ nodes' = <<>> ]_vars

\* A JumpIfTrue over three instructions with two left has panicked at
\* split_off, the two still in the queue.
C28_Witness ==
  /\ status = "panic"
  /\ failure = "split_off"
  /\ Overruns
  /\ op(Top.instruction) = JumpIfTrue
  /\ s(Top.instruction) = 3
  /\ Len(Top.queue) = 2
  /\ nodes = <<>>

\* The instructions an activation holds: those of its queue, the one it
\* is working on, and those of the nodes it has built or gathered.
HeldBy(f) ==
  Len(f.queue)
    + SumOver(f.unused, instruction_count)
    + SumOver(f.terminated, instruction_count)
    + (IF f.pc = "loop" THEN 0
       ELSE 1 + SumOver(f.children, instruction_count))

\* C29: the build of a jumped-over range is isolated from its caller.  It
\* starts with no pending and no filed nodes, no step changes the `unused`
\* or `terminated` of an activation below the running one, the call and
\* the calls it makes hold the instructions of its range and no others, a
\* body that needs a value from before the jump fails although the caller
\* holds one, and a body that leaves a value fails rather than passing it
\* on.
C29_Isolated ==
  /\ [] (status = "to_nodes" =>
           \A d \in 2 .. Len(frames) :
             HeldBy(frames[d])
               + (IF d < Len(frames) THEN s(frames[d].instruction) ELSE 0)
               = s(frames[d - 1].instruction))
  /\ [][ status = "to_nodes" =>
           /\ \A d \in 1 .. Len(frames) - 1 :
                d <= Len(frames') =>
                  /\ frames'[d].unused = frames[d].unused
                  /\ frames'[d].terminated = frames[d].terminated
           /\ Len(frames') > Len(frames) =>
                /\ frames'[Len(frames')].unused = <<>>
                /\ frames'[Len(frames')].terminated = <<>>
                /\ frames'[Len(frames)].unused = Top.unused
                /\ frames'[Len(frames)].terminated = Top.terminated
           /\ (Len(frames') < Len(frames) /\ status' = "to_nodes") =>
                /\ Top.unused = <<>>
                /\ frames'[Len(frames')].unused = frames[Len(frames')].unused
                /\ frames'[Len(frames')].terminated
                     = frames[Len(frames')].terminated ]_vars
  /\ [][ ( /\ status = "to_nodes"
           /\ Len(frames) > 1
           /\ Top.pc = "pop"
           /\ Top.needed # 0
           /\ Top.unused = <<>> ) =>
           status' = "panic" /\ failure' = "unused.pop_back" ]_vars
  /\ [][ ( /\ status = "to_nodes"
           /\ Len(frames) > 1
           /\ Top.pc = "loop"
           /\ Top.queue = <<>>
           /\ Top.unused # <<>> ) =>
           status' = "panic" /\ failure' = "assert_eq" ]_vars

\* The Return of a jump body needed a value while the only one, pushed
\* before the jump, was pending in the caller: the build panicked.
C29_Witness ==
  /\ status = "panic"
  /\ failure = "unused.pop_back"
  /\ Len(frames) = 2
  /\ op(Top.instruction) = Return
  /\ Top.unused = <<>>
  /\ Len(frames[1].unused) = 1
  /\ op(frames[1].instruction) = Jump

\* The usize `needed` went down: a wrapped value, held as a negative
\* number, stands for 2^64 plus that number and is above every value that
\* has not wrapped.
Lowered(after, before) ==
  IF before >= 0 THEN after >= 0 /\ after < before
  ELSE after < 0 /\ after < before

\* An iteration of the operand loop runs to its end.
Gathers ==
  /\ status = "to_nodes"
  /\ Top.pc = "pop"
  /\ Top.needed # 0
  /\ status' = "to_nodes"

\* C30: to_nodes terminates on every instruction array, returning a forest
\* or failing: each main-loop iteration removes at least one instruction
\* from the remaining queue, each operand-loop iteration removes one node
\* from `unused` and strictly lowers the outstanding pop requirement, and
\* each recursive call receives strictly fewer instructions than its
\* caller held.
C30_Terminates ==
  /\ (status = "to_nodes") ~> (status # "to_nodes")
  /\ [][ (Taking /\ status' = "to_nodes") =>
           /\ Len(frames') = Len(frames)
           /\ Len(frames'[Len(frames')].queue) < Len(Top.queue) ]_vars
  /\ [][ Gathers =>
           /\ Len(frames') = Len(frames)
           /\ Len(frames'[Len(frames')].unused) = Len(Top.unused) - 1
           /\ Lowered(frames'[Len(frames')].needed, Top.needed) ]_vars
  /\ [][ (status = "to_nodes" /\ Len(frames') > Len(frames)) =>
           /\ Len(frames'[Len(frames')].queue) < Len(Top.queue) + 1
           /\ Len(frames'[Len(frames')].queue) + Len(frames'[Len(frames)].queue)
                = Len(Top.queue) ]_vars

====
